---------------------------- MODULE Spec2Model ----------------------------
(***************************************************************************)
(* Model of the federal-register synchronization pipeline                  *)
(* (src/pipeline/federal_register.py): the content digest, the paginated   *)
(* fetch with detail enrichment, and the transactional persistence of a    *)
(* batch of documents.                                                     *)
(*                                                                         *)
(* Five specifications share the module:                                   *)
(*   SpecHash    _compute_content_hash applied to a record and to a        *)
(*               re-ordering of it;                                        *)
(*   SpecFetch   one run of fetch_documents (pagination, then the worker   *)
(*               pool of detail fetches);                                  *)
(*   SpecPersist successive runs of process_documents against one store;   *)
(*   SpecAgent   the read path (src/agent/federal_agent.py): a chat or run  *)
(*               call and the _query_mysql call it makes;                  *)
(*   SpecCache   chat calls that overlap in _get_help_metadata, with the    *)
(*               clock and the store changing under them.                  *)
(***************************************************************************)
EXTENDS Naturals, Sequences, FiniteSets, TLC

VARIABLES
    \* ---- SpecHash
    hdoc,        \* the document record handed to _compute_content_hash
    hre,         \* the same record built with another key order
    hd1, hd2,    \* the two digests
    hpc,         \* "idle" | "input" | "hashed"
    \* ---- SpecFetch: fetch_documents
    upstream,    \* the listing the source API holds for the date window
    per_page, max_pages, max_retries,   \* the call's arguments (max_pages 0: None)
    page, retries, all_shallow,         \* the locals of the pagination loop
    requested,   \* history: the page number of every listing request, in order
    failures,    \* history: the number of listing requests that failed
    stop,        \* history: why the pagination loop was left ("" while it runs)
    last_response, \* history: what the latest listing request ended with: "" (none) |
                 \*   "page" | "unexpected" | "transient" | "invalid_json"
    persisted,   \* the page numbers of the shallow files written to raw_data_dir
    futures,     \* future_to_docnum: [doc, doc_num, src, st, result] per submit
    full_results,
    origin,      \* history: for each entry of full_results, its index in all_shallow
    fpc,         \* "idle" | "paginate" | "paginated" | "enrich" | "returned" | "raised"
    \* ---- SpecPersist: process_documents
    db,          \* the committed tables: [docs: id -> row, agencies: set of rows]
    tx,          \* the tables as the open connection sees them (own writes included)
    batch,       \* the documents argument of the current (or the last) call
    idx,         \* position of the for loop in batch
    processed_count, skipped_count,
    conn_lost,   \* the connection of the current call was lost
    ppc,         \* "idle" | "loop"
    outcome,     \* how the last call ended: "" (none, or running) | "returned" | "raised"
    db_before,   \* history: the committed tables when the current call began
    branches,    \* history: per document of the call, the branch it took
    store_faults,\* history: store errors the environment raised in this call
    commits,     \* history: the number of commits of this call
    rerun,       \* history: this call repeats the batch of a call that returned
                 \*          without a store fault, right after it
    agency_faults, \* the positions of a document's agency list at which the store
                 \*          fails the INSERT IGNORE during the current call
    \* ---- SpecAgent: FederalAgent.chat, run and _query_mysql
    corpus,      \* the rows of the documents table
    ft_indexes,  \* the column lists of the FULLTEXT indexes of the documents table
    snapshot,    \* _meta_cache: [keywords, agencies, document_types]
    message,     \* the argument of the current (or the last) chat call
    call,        \* the arguments of run / _query_mysql: [query, agency, limit]
    use_fulltext,
    rows,        \* what _query_mysql returned
    qfaults,     \* history: the steps of _query_mysql at which the store failed
    mode,        \* history: the statement built: "" | "fulltext" | "like" | "listing"
    gate,        \* history: "" | "accepted" | "rejected" (the intent gate's verdict)
    searches,    \* history: the arguments of every run call made by the chat call
    reply,       \* what chat / run returned: [kind, forms]
    apc,         \* "idle" | "meta" | "connect" | "probe" | "execute" | "format" | "done"
    \* ---- SpecCache: FederalAgent._get_help_metadata under concurrent chat calls
    clock,       \* time.time(), in seconds
    store_version, \* which of StoreContents the store holds
    meta_cache,  \* self._meta_cache: NoSnapshot (None) or a snapshot
    meta_cache_ts, \* self._meta_cache_ts
    calls,       \* per chat call in progress: [pc, now, msg, faults, result, read_at,
                 \*   hit, out]; pc: "idle" | "work" | "store" | "done"
    cache_hist   \* history: the refresh that wrote meta_cache (snap_by), the one
                 \*   that wrote meta_cache_ts (ts_by), and when the cached
                 \*   snapshot was read from the store (read_at)

hashVars == <<hdoc, hre, hd1, hd2, hpc>>
fetchVars == <<upstream, per_page, max_pages, max_retries, page, retries, all_shallow,
               requested, failures, stop, last_response, persisted, futures, full_results,
               origin, fpc>>
persistVars == <<db, tx, batch, idx, processed_count, skipped_count, conn_lost, ppc,
                 outcome, db_before, branches, store_faults, commits, rerun,
                 agency_faults>>
agentVars == <<corpus, ft_indexes, snapshot, message, call, use_fulltext, rows, qfaults,
               mode, gate, searches, reply, apc>>
cacheVars == <<clock, store_version, meta_cache, meta_cache_ts, calls, cache_hist>>
vars == <<hashVars, fetchVars, persistVars, agentVars, cacheVars>>

(***************************************************************************)
(* JSON values.  A Python dict is a sequence of <<key, value>> pairs in     *)
(* insertion order (keys unique); every value carries its type tag.        *)
(***************************************************************************)
Null == [t |-> "null", v |-> <<>>]
Str(s) == [t |-> "str", v |-> s]
List(s) == [t |-> "list", v |-> s]
Dict(pairs) == [t |-> "dict", v |-> pairs]

HasKey(d, k) == \E i \in 1..Len(d) : d[i][1] = k

\* dict.get(k, default)
GetOr(d, k, default) ==
    IF HasKey(d, k) THEN d[CHOOSE i \in 1..Len(d) : d[i][1] = k][2] ELSE default

\* dict.get(k): None when the key is absent
Get(d, k) == GetOr(d, k, Null)

\* Python truthiness: None, "", [] and {} are falsy
Truthy(val) == val.t # "null" /\ val.v # (IF val.t = "str" THEN "" ELSE <<>>)

\* a or b
Or(a, b) == IF Truthy(a) THEN a ELSE b

\* a == b for values: dicts have the same keys with equal values, whatever the
\* insertion order and at every depth; lists are equal item by item, in order
RECURSIVE ValEq(_, _)
ValEq(a, b) ==
    /\ a.t = b.t
    /\ IF a.t = "dict"
         THEN /\ Len(a.v) = Len(b.v)
              /\ \A i \in 1..Len(a.v) :
                    /\ HasKey(b.v, a.v[i][1])
                    /\ ValEq(a.v[i][2], Get(b.v, a.v[i][1]))
         ELSE IF a.t = "list"
         THEN /\ Len(a.v) = Len(b.v)
              /\ \A i \in 1..Len(a.v) : ValEq(a.v[i], b.v[i])
         ELSE a.v = b.v

\* a == b for dicts
DictEq(a, b) == ValEq(Dict(a), Dict(b))

\* {**a, **b}: a's keys in a's order with b's values where b has the key,
\* then the keys only b has, in b's order
Merge(a, b) ==
    [i \in 1..Len(a) |-> <<a[i][1], GetOr(b, a[i][1], a[i][2])>>]
        \o SelectSeq(b, LAMBDA p : ~HasKey(a, p[1]))

(***************************************************************************)
(* json.dumps.  Keys are compared as Python compares str: KeyOrder lists    *)
(* the keys of the model in that order.                                    *)
(***************************************************************************)
KeyOrder == <<"abstract", "agencies", "document_number", "id", "name", "slug", "title">>

\* sort_keys=False: the items are written in insertion order
SortPairsInsertionOrder(pairs) == pairs

\* sorted(dct.items()) of json.dumps(sort_keys=True)
SortPairs(pairs) ==
    LET present == SelectSeq(KeyOrder, LAMBDA k : HasKey(pairs, k))
    IN  [i \in 1..Len(present) |-> <<present[i], Get(pairs, present[i])>>]

RECURSIVE JsonDumps(_, _)
RECURSIVE JsonItems(_, _)
RECURSIVE JsonElems(_, _)

\* json.dumps(val, sort_keys=sort_keys, ensure_ascii=False), default separators
JsonDumps(val, sort_keys) ==
    CASE val.t = "null" -> "null"
      [] val.t = "str"  -> "\"" \o val.v \o "\""
      [] val.t = "list" -> "[" \o JsonElems(val.v, sort_keys) \o "]"
      [] val.t = "dict" ->
            "{" \o JsonItems(IF sort_keys THEN SortPairs(val.v) ELSE val.v, sort_keys) \o "}"

JsonItems(pairs, sort_keys) ==
    IF pairs = <<>> THEN ""
    ELSE "\"" \o pairs[1][1] \o "\": " \o JsonDumps(pairs[1][2], sort_keys)
            \o (IF Len(pairs) > 1 THEN ", " ELSE "")
            \o JsonItems(Tail(pairs), sort_keys)

JsonElems(elems, sort_keys) ==
    IF elems = <<>> THEN ""
    ELSE JsonDumps(elems[1], sort_keys)
            \o (IF Len(elems) > 1 THEN ", " ELSE "")
            \o JsonElems(Tail(elems), sort_keys)

\* hashlib.sha256(...).hexdigest(): collision-free on the strings of the model,
\* so a digest is represented by the text it was computed from
Sha256(s) == [t |-> "sha256", v |-> s]

\* _compute_content_hash
ContentHash(doc) == Sha256(JsonDumps(Dict(doc), TRUE))

(***************************************************************************)
(* SpecHash: the digest of a record and of a re-ordering of it             *)
(***************************************************************************)
EPA == <<<<"name", Str("EPA")>>, <<"id", Str("145")>>, <<"slug", Null>>>>
FDA == <<<<"name", Str("FDA")>>, <<"id", Str("199")>>>>

\* records the digest is computed for
HashDocs ==
    { <<<<"document_number", Str("A")>>, <<"title", Str("Rule")>>,
        <<"agencies", List(<<Dict(EPA), Dict(FDA)>>)>>>>,
      <<<<"title", Str("Rule")>>, <<"document_number", Str("A")>>,
        <<"abstract", Null>>, <<"agencies", List(<<Dict(FDA)>>)>>>>,
      <<<<"id", Str("B")>>, <<"title", Str("")>>, <<"agencies", List(<<>>)>>>>,
      <<<<"document_number", Str("A")>>, <<"agencies", Dict(EPA)>>,
        <<"abstract", Str("Rule")>>>> }

Perms(n) == { p \in [1..n -> 1..n] : \A i, j \in 1..n : p[i] = p[j] => i = j }

RECURSIVE Reorderings(_)
\* every value with the keys and values of val, in any key order at any depth
\* (lists keep their order: they are sequences, not objects)
Reorderings(val) ==
    CASE val.t \in {"null", "str"} -> {val}
      [] val.t = "list" ->
            { List(s) : s \in { s \in [1..Len(val.v) ->
                                        UNION {Reorderings(val.v[i]) : i \in 1..Len(val.v)}] :
                                  \A i \in 1..Len(val.v) : s[i] \in Reorderings(val.v[i]) } }
      [] val.t = "dict" ->
            LET n == Len(val.v)
                vals == { c \in [1..n -> UNION {Reorderings(val.v[i][2]) : i \in 1..n}] :
                            \A i \in 1..n : c[i] \in Reorderings(val.v[i][2]) }
            IN  { Dict([i \in 1..n |-> <<val.v[p[i]][1], c[p[i]]>>]) :
                    p \in Perms(n), c \in vals }

\* the variables of fetch_documents while no fetch runs
FetchIdle ==
    /\ upstream = <<>> /\ per_page = 0 /\ max_pages = 0 /\ max_retries = 0
    /\ page = 0 /\ retries = 0 /\ all_shallow = <<>>
    /\ requested = <<>> /\ failures = 0 /\ stop = "" /\ last_response = ""
    /\ persisted = <<>> /\ futures = <<>> /\ full_results = <<>> /\ origin = <<>>
    /\ fpc = "idle"

\* the variables of process_documents with an empty store and no call made
PersistIdle ==
    /\ db = [docs |-> <<>>, agencies |-> {}] /\ tx = db /\ db_before = db
    /\ batch = <<>> /\ idx = 0 /\ processed_count = 0 /\ skipped_count = 0
    /\ conn_lost = FALSE /\ ppc = "idle" /\ outcome = ""
    /\ branches = <<>> /\ store_faults = 0 /\ commits = 0 /\ rerun = FALSE
    /\ agency_faults = {}

\* the variables of the agent while no chat or run call was made
AgentIdle ==
    /\ corpus = {} /\ ft_indexes = {} /\ snapshot = <<>>
    /\ message = <<>> /\ call = <<>> /\ use_fulltext = FALSE
    /\ rows = <<>> /\ qfaults = {} /\ mode = "" /\ gate = "" /\ searches = <<>>
    /\ reply = <<>> /\ apc = "idle"

\* the variables of the metadata cache of an agent that was not constructed
CacheIdle ==
    /\ clock = 0 /\ store_version = 0 /\ meta_cache = <<>> /\ meta_cache_ts = 0
    /\ calls = <<>> /\ cache_hist = <<>>

\* the variables of the digest computation while none runs
HashIdle ==
    /\ hdoc = <<>> /\ hre = <<>> /\ hd1 = <<>> /\ hd2 = <<>> /\ hpc = "idle"

HashInit ==
    /\ FetchIdle /\ PersistIdle /\ AgentIdle /\ CacheIdle
    /\ hdoc \in HashDocs
    /\ hre \in { r.v : r \in Reorderings(Dict(hdoc)) }
    /\ hd1 = <<>> /\ hd2 = <<>>
    /\ hpc = "input"

\* _compute_content_hash(hdoc) and _compute_content_hash(hre)
ComputeHashes ==
    /\ hpc = "input"
    /\ hd1' = ContentHash(hdoc)
    /\ hd2' = ContentHash(hre)
    /\ hpc' = "hashed"
    /\ UNCHANGED <<hdoc, hre, fetchVars, persistVars, agentVars, cacheVars>>

HashNext == ComputeHashes

SpecHash == HashInit /\ [][HashNext]_vars

\* C3: two records with the same keys and values, built with a different key
\* order at the top level or inside nested objects, get the same digest.
DigestDeterminism == (hpc = "hashed" /\ DictEq(hdoc, hre)) => hd1 = hd2

\* a record whose top-level keys and whose nested agency object's keys are both
\* in another order than the original's has been hashed
DigestDeterminismWitness ==
    /\ hpc = "hashed"
    /\ DictEq(hdoc, hre)
    /\ hdoc[1][1] # hre[1][1]
    /\ Get(hdoc, "agencies").t = "list"
    /\ Get(hdoc, "agencies").v # <<>>
    /\ Get(hdoc, "agencies").v[1].v[1][1] # Get(hre, "agencies").v[1].v[1][1]
    /\ JsonDumps(Dict(hdoc), FALSE) # JsonDumps(Dict(hre), FALSE)


(***************************************************************************)
(* SpecFetch: one run of fetch_documents                                   *)
(***************************************************************************)
\* size of the worker pool of the detail fetches (environment MAX_WORKERS)
MAX_WORKERS == 2

\* longest listing the source API holds in the model
MaxListing == 3

\* most listing requests that fail in one run of the model
MaxFailures == 3

PerPageValues == {1, 2}
MaxPagesValues == {0, 2}
MaxRetriesValues == {1, 2, 3}

\* shallow records (JSON objects): with a document number, with an id only,
\* with neither
ShallowA == <<<<"document_number", Str("A")>>, <<"title", Str("Rule")>>>>
ShallowB == <<<<"id", Str("B")>>, <<"document_number", Str("")>>, <<"title", Str("Notice")>>>>
ShallowN == <<<<"title", Str("Untitled")>>, <<"document_number", Null>>>>

\* the listings of the source API: prefixes of two repeating patterns (the
\* second holds the same record twice, as an inconsistent upstream may)
ListingPatterns ==
    << <<ShallowA, ShallowN, ShallowB>>, <<ShallowB, ShallowA, ShallowA, ShallowN>> >>
Listings ==
    { [i \in 1..n |-> ListingPatterns[k][((i - 1) % Len(ListingPatterns[k])) + 1]] :
        n \in 0..MaxListing, k \in 1..Len(ListingPatterns) }

\* the detail record the source API holds for a document number; the endpoint
\* answers for the number it was asked for (its record carries that number
\* or none)
DetailOf(num) ==
    IF num = "A"
    THEN <<<<"title", Str("Rule (final)")>>, <<"document_number", Str("A")>>,
           <<"abstract", Str("Text")>>>>
    ELSE <<<<"abstract", Null>>, <<"agencies", List(<<Dict(FDA)>>)>>>>

\* what a detail request can end with: a JSON object, a failure (request error,
\* bad status, unparsable body), or valid JSON that is no object
DetailResponses == {"object", "failure", "array"}

\* fetch_full_document: resp.json(), or {} on any exception
FetchFullDocument(doc_num, response) ==
    CASE response = "object"  -> Dict(DetailOf(doc_num))
      [] response = "failure" -> Dict(<<>>)
      [] response = "array"   -> List(<<Str(doc_num)>>)

\* doc.get('document_number') or doc.get('id')
DocNum(doc) == Or(Get(doc, "document_number"), Get(doc, "id"))

\* {**full, **doc_shallow}: the shallow fields would win
MergedShallowWins(doc_shallow, full) ==
    IF Truthy(full) /\ full.t = "dict" THEN Merge(full.v, doc_shallow) ELSE doc_shallow

\* the record appended to full_results for a completed future:
\* {**doc_shallow, **(full or {})}, or doc_shallow when that raises
Merged(doc_shallow, full) ==
    IF ~Truthy(full) THEN Merge(doc_shallow, <<>>)
    ELSE IF full.t = "dict" THEN Merge(doc_shallow, full.v)
    ELSE doc_shallow

Min(a, b) == IF a < b THEN a ELSE b

\* data['results'] of page p: the p-th slice of the listing
PageOf(listing, size, p) ==
    SubSeq(listing, (p - 1) * size + 1, Min(p * size, Len(listing)))

PageResults == PageOf(upstream, per_page, page)

\* len(results) <= per_page: a full page would end the loop too
IsLastPageOffByOne(results, size) == Len(results) <= size

\* if len(results) < per_page: break
IsLastPage(results, size) == Len(results) < size

\* retries > max_retries: one attempt too many
RetriesExceededLate(n, max) == n > max

\* if retries >= max_retries: break
RetriesExceeded(n, max) == n >= max

\* a dict keyed by document number instead of by future: of two records with
\* the same number only the last is kept
SubmittedByNumber(shallow) ==
    SelectSeq([i \in 1..Len(shallow) |-> i],
              LAMBDA i : /\ Truthy(DocNum(shallow[i]))
                         /\ \A k \in (i + 1)..Len(shallow) :
                                DocNum(shallow[k]) # DocNum(shallow[i]))

\* the indexes of the records a detail fetch is submitted for, in order:
\* those with a document number (if not doc_num: continue)
Submitted(shallow) ==
    SelectSeq([i \in 1..Len(shallow) |-> i], LAMBDA i : Truthy(DocNum(shallow[i])))

FetchInit ==
    /\ HashIdle /\ PersistIdle /\ AgentIdle /\ CacheIdle
    /\ upstream \in Listings
    /\ per_page \in PerPageValues
    /\ max_pages \in MaxPagesValues
    /\ max_retries \in MaxRetriesValues
    /\ page = 1 /\ retries = 0 /\ all_shallow = <<>>
    /\ requested = <<>> /\ failures = 0 /\ stop = "" /\ last_response = ""
    /\ persisted = <<>> /\ futures = <<>> /\ full_results = <<>> /\ origin = <<>>
    /\ fpc = "paginate"

\* page > max_pages + 1: the cap would let one page more be requested
CapReachedLate == max_pages # 0 /\ page > max_pages + 1

\* if max_pages and page > max_pages
CapReached == max_pages # 0 /\ page > max_pages

\* the loop is at requests.get for the current page
Requesting == fpc = "paginate" /\ ~CapReached

\* break
LeaveLoop(why) == stop' = why /\ fpc' = "paginated"

StopAtCap ==
    /\ fpc = "paginate" /\ CapReached
    /\ LeaveLoop("cap")
    /\ UNCHANGED <<upstream, per_page, max_pages, max_retries, page, retries, all_shallow,
                   requested, failures, persisted, futures, full_results, origin, last_response, hashVars, persistVars, agentVars, cacheVars>>

\* a page that is not the last: extend, write the file, next page
PageFull ==
    /\ Requesting
    /\ PageResults # <<>> /\ ~IsLastPage(PageResults, per_page)
    /\ requested' = Append(requested, page)
    /\ all_shallow' = all_shallow \o PageResults
    /\ persisted' = Append(persisted, page)
    /\ page' = page + 1
    /\ retries' = 0
    /\ last_response' = "page"
    /\ UNCHANGED <<upstream, per_page, max_pages, max_retries, failures, stop,
                   futures, full_results, origin, fpc, hashVars, persistVars, agentVars, cacheVars>>

\* a page with fewer than per_page results, not empty: extend, write, break
PageShort ==
    /\ Requesting
    /\ PageResults # <<>> /\ IsLastPage(PageResults, per_page)
    /\ requested' = Append(requested, page)
    /\ all_shallow' = all_shallow \o PageResults
    /\ persisted' = Append(persisted, page)
    /\ LeaveLoop("short")
    /\ last_response' = "page"
    /\ UNCHANGED <<upstream, per_page, max_pages, max_retries, page, retries, failures,
                   futures, full_results, origin, hashVars, persistVars, agentVars, cacheVars>>

\* if not results: break
PageEmpty ==
    /\ Requesting
    /\ PageResults = <<>>
    /\ requested' = Append(requested, page)
    /\ LeaveLoop("empty")
    /\ last_response' = "page"
    /\ UNCHANGED <<upstream, per_page, max_pages, max_retries, page, retries, all_shallow,
                   failures, persisted, futures, full_results, origin, hashVars, persistVars, agentVars, cacheVars>>

\* the body is JSON but no object with a 'results' key: break
PageUnexpected ==
    /\ Requesting
    /\ requested' = Append(requested, page)
    /\ LeaveLoop("unexpected")
    /\ last_response' = "unexpected"
    /\ UNCHANGED <<upstream, per_page, max_pages, max_retries, page, retries, all_shallow,
                   failures, persisted, futures, full_results, origin, hashVars, persistVars, agentVars, cacheVars>>

\* page += 1 in the except handlers: a failed page would be passed over
PageAfterFailureSkips(p) == p + 1

\* the except handlers leave page as it is: the next request is for the same page
PageAfterFailure(p) == p

\* the handlers of HTTPError and RequestException: count, give up at max_retries,
\* else sleep and request the same page again
Retry ==
    /\ requested' = Append(requested, page)
    /\ failures' = failures + 1
    /\ retries' = retries + 1
    /\ page' = PageAfterFailure(page)
    /\ IF RetriesExceeded(retries + 1, max_retries)
       THEN LeaveLoop("retries")
       ELSE UNCHANGED <<stop, fpc>>
    /\ UNCHANGED <<upstream, per_page, max_pages, max_retries, all_shallow,
                   persisted, futures, full_results, origin, hashVars, persistVars, agentVars, cacheVars>>

\* raise_for_status raises HTTPError
PageHTTPError ==
    Requesting /\ failures < MaxFailures /\ Retry /\ last_response' = "transient"

\* requests.get raises a RequestException (connection error, timeout)
PageRequestException ==
    Requesting /\ failures < MaxFailures /\ Retry /\ last_response' = "transient"

\* the body is not valid JSON and resp.json() raises.  With requests >= 2.27
\* the exception is requests.exceptions.JSONDecodeError, a RequestException,
\* and the page is retried; with an older requests it is a plain ValueError:
\* except Exception, break.  The installed version is not pinned.
PageInvalidJSON ==
    /\ Requesting /\ failures < MaxFailures
    /\ last_response' = "invalid_json"
    /\ \E json_error_is_request_exception \in BOOLEAN :
          IF json_error_is_request_exception
          THEN Retry
          ELSE /\ requested' = Append(requested, page)
               /\ failures' = failures + 1
               /\ LeaveLoop("error")
               /\ UNCHANGED <<upstream, per_page, max_pages, max_retries, page, retries,
                              all_shallow, persisted, futures, full_results, origin,
                              hashVars, persistVars, agentVars, cacheVars>>

\* the page was received and appended, and writing its file raises OSError:
\* except Exception, break
PageWriteFails ==
    /\ Requesting
    /\ PageResults # <<>>
    /\ requested' = Append(requested, page)
    /\ all_shallow' = all_shallow \o PageResults
    /\ LeaveLoop("error")
    /\ last_response' = "page"
    /\ UNCHANGED <<upstream, per_page, max_pages, max_retries, page, retries, failures,
                   persisted, futures, full_results, origin, hashVars, persistVars, agentVars, cacheVars>>

\* nothing is running any more between the loop and the worker pool:
\* return [] on an empty list, else enter the pool with future_to_docnum = {}
Submit ==
    /\ fpc = "paginated"
    /\ fpc' = IF all_shallow = <<>> THEN "returned" ELSE "enrich"
    /\ futures' = <<>>
    /\ UNCHANGED <<upstream, per_page, max_pages, max_retries, page, retries, all_shallow,
                   requested, failures, stop, persisted, full_results, origin, last_response, hashVars, persistVars, agentVars, cacheVars>>

\* the for loop over all_shallow has ended: every record that has a document
\* number has its future
AllSubmitted == Len(futures) = Len(Submitted(all_shallow))

\* one turn of the for loop that reaches ex.submit: the next record that has a
\* document number (if not doc_num: continue) gets its future, while the
\* workers go on with the calls submitted before
SubmitDetail ==
    /\ fpc = "enrich"
    /\ ~AllSubmitted
    /\ futures' =
         LET src == Submitted(all_shallow)[Len(futures) + 1]
         IN  Append(futures, [src |-> src, doc_num |-> DocNum(all_shallow[src]).v,
                              st |-> "queued", result |-> Null])
    /\ UNCHANGED <<upstream, per_page, max_pages, max_retries, page, retries, all_shallow,
                   requested, failures, stop, persisted, full_results, origin, fpc, last_response, hashVars, persistVars, agentVars, cacheVars>>

Running == { j \in 1..Len(futures) : futures[j].st = "running" }

\* a pool that starts a thread for every submitted call
FreeWorkerAlways(running) == TRUE

\* ThreadPoolExecutor(max_workers=MAX_WORKERS): a queued call is started only
\* while fewer than MAX_WORKERS worker threads are busy
FreeWorker(running) == Cardinality(running) < MAX_WORKERS

\* a free worker of the pool takes the oldest queued call
StartDetail ==
    /\ fpc = "enrich"
    /\ FreeWorker(Running)
    /\ \E j \in 1..Len(futures) :
          /\ futures[j].st = "queued"
          /\ \A k \in 1..(j - 1) : futures[k].st # "queued"
          /\ futures' = [futures EXCEPT ![j].st = "running"]
    /\ UNCHANGED <<upstream, per_page, max_pages, max_retries, page, retries, all_shallow,
                   requested, failures, stop, persisted, full_results, origin, fpc, last_response, hashVars, persistVars, agentVars, cacheVars>>

\* fetch_full_document returns in its worker
FinishDetail ==
    /\ fpc = "enrich"
    /\ \E j \in Running, response \in DetailResponses :
          futures' = [futures EXCEPT ![j].st = "done",
                                     ![j].result = FetchFullDocument(futures[j].doc_num, response)]
    /\ UNCHANGED <<upstream, per_page, max_pages, max_retries, page, retries, all_shallow,
                   requested, failures, stop, persisted, full_results, origin, fpc, last_response, hashVars, persistVars, agentVars, cacheVars>>

\* the k-th completion is paired with the k-th submitted record
ShallowByCompletionOrder(j, k) == futures[k].src

\* doc_shallow, doc_num = future_to_docnum[future]: the record the yielded
\* future j was submitted for (k: its position in the order of completion)
ShallowOf(j, k) == futures[j].src

\* as_completed, entered after the submit loop, yields a finished future:
\* merge and append
Collect ==
    /\ fpc = "enrich"
    /\ AllSubmitted
    /\ \E j \in 1..Len(futures) :
          LET src == ShallowOf(j, Len(full_results) + 1)
          IN  /\ futures[j].st = "done"
              /\ futures' = [futures EXCEPT ![j].st = "collected"]
              /\ full_results' =
                    Append(full_results, Merged(all_shallow[src], futures[j].result))
              /\ origin' = Append(origin, src)
    /\ UNCHANGED <<upstream, per_page, max_pages, max_retries, page, retries, all_shallow,
                   requested, failures, stop, persisted, fpc, last_response, hashVars, persistVars, agentVars, cacheVars>>

\* every future was yielded and the pool is left
PoolDone ==
    /\ fpc = "enrich"
    /\ AllSubmitted
    /\ \A j \in 1..Len(futures) : futures[j].st = "collected"

\* the processed file is written and full_results is returned
Return ==
    /\ PoolDone
    /\ fpc' = "returned"
    /\ UNCHANGED <<upstream, per_page, max_pages, max_retries, page, retries, all_shallow,
                   requested, failures, stop, persisted, futures, full_results, origin,
                   last_response, hashVars, persistVars, agentVars, cacheVars>>

\* open() or json.dump of the processed file raises (OSError: directory
\* missing, disk full); nothing catches it and fetch_documents raises
ProcessedWriteFails ==
    /\ PoolDone
    /\ fpc' = "raised"
    /\ UNCHANGED <<upstream, per_page, max_pages, max_retries, page, retries, all_shallow,
                   requested, failures, stop, persisted, futures, full_results, origin,
                   last_response, hashVars, persistVars, agentVars, cacheVars>>

FetchNext ==
    \/ StopAtCap \/ PageFull \/ PageShort \/ PageEmpty \/ PageUnexpected
    \/ PageHTTPError \/ PageRequestException \/ PageInvalidJSON \/ PageWriteFails
    \/ Submit \/ SubmitDetail \/ StartDetail \/ FinishDetail \/ Collect
    \/ Return \/ ProcessedWriteFails

SpecFetch == FetchInit /\ [][FetchNext]_vars

(***************************************************************************)
(* Properties of fetch_documents                                           *)
(***************************************************************************)
Range(f) == { f[i] : i \in DOMAIN f }

RECURSIVE ConcatPages(_)
\* the results of pages 1..n of the listing, one after the other
ConcatPages(n) ==
    IF n = 0 THEN <<>> ELSE ConcatPages(n - 1) \o PageOf(upstream, per_page, n)

\* the listing's page i has fewer than per_page results
ShortPage(i) == Len(PageOf(upstream, per_page, i)) < per_page

\* no listing request failed, every response was a well-formed page and every
\* page file was written
NoRequestFailure == failures = 0 /\ stop \notin {"unexpected", "error"}

\* C4: with no request failure the pages are requested as 1, 2, ... in order,
\* the loop is left right after the first page with fewer than per_page
\* results, the number of requests is then that page's index, and the shallow
\* sequence is the concatenation of the received pages in page order.
PaginationTermination ==
    NoRequestFailure =>
        /\ requested = [i \in 1..Len(requested) |-> i]
        /\ \A i \in 1..Len(requested) :
              ShortPage(i) => i = Len(requested) /\ fpc # "paginate"
        /\ stop \in {"short", "empty"} =>
              /\ ShortPage(Len(requested))
              /\ \A i \in 1..(Len(requested) - 1) : ~ShortPage(i)
        /\ all_shallow = ConcatPages(Len(requested))
        /\ Len(all_shallow) = Len(upstream) \/ Len(all_shallow) = Len(requested) * per_page

\* a run without failure received a full page and then a short one that was
\* not empty (sizes [2, 1] with per_page 2), and stopped after 2 requests
\* with 3 shallow records
PaginationTerminationWitness ==
    /\ NoRequestFailure
    /\ stop = "short"
    /\ per_page = 2
    /\ requested = <<1, 2>>
    /\ Len(all_shallow) = 3

\* the number of listing requests made for page p
Attempts(p) == Cardinality({ i \in 1..Len(requested) : requested[i] = p })

\* the entry of full_results made from the shallow record at index i
ResultsOf(i) == { j \in 1..Len(origin) : origin[j] = i }

\* C5 as stated: when a page fails on every attempt there are exactly
\* max_retries attempts for it, the loop is left without raising, and every
\* record of the pages fetched before is part of the returned result.
RetryBoundAllRecordsReturned ==
    stop = "retries" =>
        /\ Attempts(page) = max_retries
        /\ fpc # "paginate"
        /\ fpc = "returned" =>
              \A i \in 1..Len(ConcatPages(page - 1)) : ResultsOf(i) # {}

\* C5, amended: ... and every record of the pages fetched before that has a
\* resolvable document number is part of the returned result; the shallow
\* sequence still holds every record of those pages.
RetryBound ==
    stop = "retries" =>
        /\ Attempts(page) = max_retries
        /\ retries = max_retries
        /\ fpc # "paginate"
        /\ all_shallow = ConcatPages(page - 1)
        /\ fpc = "returned" =>
              \A i \in 1..Len(ConcatPages(page - 1)) :
                 Truthy(DocNum(all_shallow[i])) =>
                    \E j \in ResultsOf(i) :
                       DocNum(full_results[j]) = DocNum(all_shallow[i])

\* a run returned after page 2 failed max_retries >= 2 times, page 1 having
\* failed once before it was received; the records of page 1 were returned
RetryBoundWitness ==
    /\ stop = "retries" /\ fpc = "returned"
    /\ max_retries >= 2
    /\ page = 2
    /\ Attempts(1) = 2
    /\ full_results # <<>>

\* C6 as stated: every shallow record accumulated by pagination appears
\* exactly once in the output, under its original document number.
ExactlyOnceEveryRecord ==
    fpc = "returned" =>
        \A i \in 1..Len(all_shallow) :
           /\ Cardinality(ResultsOf(i)) = 1
           /\ \A j \in ResultsOf(i) : DocNum(full_results[j]) = DocNum(all_shallow[i])

\* C6, amended: every shallow record that has a resolvable document number
\* (document_number or, failing that, id) appears exactly once in the output,
\* under that number, whatever the outcome and the order of the detail
\* fetches; a record without one is left out; the output holds nothing else.
ExactlyOnce ==
    fpc = "returned" =>
        /\ \A i \in 1..Len(all_shallow) :
              IF Truthy(DocNum(all_shallow[i]))
              THEN /\ Cardinality(ResultsOf(i)) = 1
                   /\ \A j \in ResultsOf(i) :
                         DocNum(full_results[j]) = DocNum(all_shallow[i])
              ELSE ResultsOf(i) = {}
        /\ Len(full_results) = Len(origin)
        /\ Range(origin) \subseteq 1..Len(all_shallow)

\* a run returned three records, two of them with the same document number,
\* out of input order, one detail fetch having failed and one succeeded
ExactlyOnceWitness ==
    /\ fpc = "returned"
    /\ Len(full_results) = 3
    /\ \E i, k \in 1..Len(all_shallow) :
          i # k /\ Truthy(DocNum(all_shallow[i])) /\ DocNum(all_shallow[i]) = DocNum(all_shallow[k])
    /\ \E j \in 1..(Len(origin) - 1) : origin[j] > origin[j + 1]
    /\ \E j \in 1..Len(futures) : futures[j].result = Dict(<<>>)
    /\ \E j \in 1..Len(futures) : Truthy(futures[j].result)

Keys(d) == { d[i][1] : i \in 1..Len(d) }

\* the future submitted for the shallow record at index i
FutureOf(i) == futures[CHOOSE j \in 1..Len(futures) : futures[j].src = i]

\* C7: the output record of a shallow record whose detail fetch returned a JSON
\* object has, for every field, the detail value where the detail has the
\* field and the shallow value otherwise; the output record of one whose
\* detail fetch failed is the shallow record unmodified.
MergeRule ==
    \A j \in 1..Len(full_results) :
       LET shallow == all_shallow[origin[j]]
           full == FutureOf(origin[j]).result
           out == full_results[j]
       IN  IF full.t = "dict" /\ full.v # <<>>
           THEN /\ Keys(out) = Keys(shallow) \cup Keys(full.v)
                /\ \A k \in Keys(out) :
                      Get(out, k) = IF HasKey(full.v, k) THEN Get(full.v, k)
                                    ELSE Get(shallow, k)
           ELSE out = shallow

\* the output holds a record whose detail replaced a shallow field and added
\* one, and a record whose detail fetch failed
MergeRuleWitness ==
    /\ \E j \in 1..Len(full_results) :
          LET shallow == all_shallow[origin[j]]
              full == FutureOf(origin[j]).result
          IN  /\ full.t = "dict" /\ full.v # <<>>
              /\ \E k \in Keys(shallow) \cap Keys(full.v) : Get(shallow, k) # Get(full.v, k)
              /\ Keys(full.v) \ Keys(shallow) # {}
              /\ Get(full_results[j], "title") = Get(full.v, "title")
    /\ \E j \in 1..Len(full_results) : FutureOf(origin[j]).result = Dict(<<>>)

\* the page number of the latest listing request
LastRequested == requested[Len(requested)]

\* a step that issues a listing request
ListingRequest == requested' # requested

\* C19 as stated: after a listing response that is not valid JSON, not a JSON
\* object or an object without 'results', no further listing request is
\* issued, neither for the same page nor for a later one.
MalformedAborts ==
    [][(last_response \in {"unexpected", "invalid_json"}) => (~ListingRequest)]_vars

\* C20: the requested page numbers start at 1 and never decrease; a request
\* that follows a failed one is for the same page; page N+1 is requested only
\* right after page N was received with exactly per_page results; one request
\* is issued per step of the loop and none once the loop is left; and no
\* detail fetch is submitted or started while the loop runs.
SequentialPagination ==
    /\ [](/\ requested # <<>> => requested[1] = 1
          /\ \A i \in 1..(Len(requested) - 1) : requested[i] <= requested[i + 1]
          /\ fpc = "paginate" => futures = <<>> /\ full_results = <<>>)
    /\ [][ListingRequest =>
            /\ fpc = "paginate"
            /\ \E p \in 1..(MaxListing + MaxFailures + 2) :
                  /\ requested' = Append(requested, p)
                  /\ requested = <<>> => p = 1
                  /\ requested # <<>> =>
                        IF last_response = "page"
                        THEN /\ p = LastRequested + 1
                             /\ LastRequested \in Range(persisted)
                             /\ Len(PageOf(upstream, per_page, LastRequested)) = per_page
                        ELSE (p = LastRequested)]_vars
    /\ [][(futures' # futures) => (fpc # "paginate" /\ ~ListingRequest)]_vars

\* a detail fetch is running after a pagination in which page 1 failed once
\* and was then received in full, and page 2 failed and was requested again
SequentialPaginationWitness ==
    /\ fpc = "enrich" /\ Running # {}
    /\ Len(requested) >= 4
    /\ SubSeq(requested, 1, 4) = <<1, 1, 2, 2>>
    /\ 1 \in Range(persisted)

\* C21: with a page cap M (max_pages set) no listing request is for a page
\* above M, whatever requests succeeded or failed; the shallow records and
\* the returned documents number at most M * per_page; and once page M was
\* received in full the loop is left at the cap instead of requesting page M+1.
PageCap ==
    /\ [](max_pages # 0 =>
            /\ \A i \in 1..Len(requested) : requested[i] <= max_pages
            /\ page <= max_pages + 1
            /\ Len(all_shallow) <= max_pages * per_page
            /\ Len(full_results) <= max_pages * per_page)
    /\ [][(fpc = "paginate" /\ CapReached) =>
            (~ListingRequest /\ stop' = "cap" /\ fpc' = "paginated")]_vars

\* a run with cap 2 returned: page 2 was received in full after a failed
\* request, the listing holds more records than two pages, and the loop was
\* left at the cap with 2 * per_page records
PageCapWitness ==
    /\ max_pages = 2 /\ stop = "cap" /\ fpc = "returned"
    /\ failures > 0
    /\ Len(upstream) > max_pages * per_page
    /\ Len(PageOf(upstream, per_page, max_pages)) = per_page
    /\ Len(all_shallow) = max_pages * per_page
    /\ LastRequested = max_pages

\* C22: with a page cap M and max_retries R, whatever the listing responses
\* are (full, short or empty page, malformed response, transient failure), at
\* most M * R listing requests are issued, and after the (M * R)-th the loop
\* issues no further one.
PaginationBound ==
    max_pages # 0 =>
        /\ Len(requested) <= max_pages * max_retries
        /\ Len(requested) = max_pages * max_retries => ~Requesting

\* a capped run used the whole budget: with M = 2 and R = 2 each page failed
\* once and was then received in full, four requests in all
PaginationBoundWitness ==
    /\ max_pages = 2 /\ max_retries = 2
    /\ requested = <<1, 1, 2, 2>>
    /\ failures = 2
    /\ fpc = "paginate" /\ CapReached

\* C23 as stated: every listing page received has its file written before
\* the next listing request and before the loop is left, and at every point
\* the accumulated shallow records are exactly the records of the pages whose
\* file was written.
ImmediatePersistence ==
    /\ persisted = [i \in 1..Len(persisted) |-> i]
    /\ all_shallow = ConcatPages(Len(persisted))
    /\ (last_response = "page" /\ (fpc # "paginate" \/ page > LastRequested)) =>
          LastRequested \in Range(persisted)

\* the detail fetches that were submitted and have not returned yet
Pending == { j \in 1..Len(futures) : futures[j].st \in {"queued", "running"} }

\* C24: at every moment at most MAX_WORKERS detail-fetch requests are in
\* flight, however many records were submitted (the others wait in the
\* pool's queue), and fetch_documents has returned only when every submitted
\* detail fetch has completed and was collected.
BoundedFanOut ==
    /\ Cardinality(Running) <= MAX_WORKERS
    /\ fpc \in {"returned", "raised"} =>
          /\ Pending = {}
          /\ \A j \in 1..Len(futures) : futures[j].st = "collected"
          /\ Len(full_results) = Len(futures)
          /\ Len(futures) = Len(Submitted(all_shallow))
    /\ fpc \in {"paginate", "paginated"} => futures = <<>>

\* the pool is saturated: MAX_WORKERS requests are in flight and a further
\* submitted detail fetch waits for a worker
BoundedFanOutWitness ==
    /\ fpc = "enrich"
    /\ Cardinality(Running) = MAX_WORKERS
    /\ \E j \in 1..Len(futures) : futures[j].st = "queued"

\* C25: in every order of completion, each entry of the output is the merge
\* of a shallow record with the detail response requested for that record's
\* own document number, so the merged record of a shallow record depends only
\* on that record and on the outcome of its own detail fetch; when all have
\* completed the output holds one such record per submitted record.
CompletionMatching ==
    /\ \A j \in 1..Len(full_results) :
          LET shallow == all_shallow[origin[j]]
              future == FutureOf(origin[j])
          IN  /\ future.st = "collected"
              /\ future.doc_num = DocNum(shallow).v
              /\ future.result \in
                    { FetchFullDocument(DocNum(shallow).v, r) : r \in DetailResponses }
              /\ full_results[j] = Merged(shallow, future.result)
    /\ fpc = "returned" =>
          { origin[j] : j \in 1..Len(origin) } = { futures[j].src : j \in 1..Len(futures) }

\* a run returned the records of two different document numbers, collected
\* in the reverse of the order of submission; the detail fetch of one
\* failed and left its record as it was, the other's detail was merged
CompletionMatchingWitness ==
    /\ fpc = "returned"
    /\ \E j, k \in 1..Len(full_results) :
          /\ j < k /\ origin[j] > origin[k]
          /\ DocNum(all_shallow[origin[j]]) # DocNum(all_shallow[origin[k]])
          /\ FutureOf(origin[j]).result = Dict(<<>>)
          /\ full_results[j] = all_shallow[origin[j]]
          /\ FutureOf(origin[k]).result = Dict(DetailOf(DocNum(all_shallow[origin[k]]).v))
          /\ full_results[k] # all_shallow[origin[k]]

(***************************************************************************)
(* SpecPersist: calls of process_documents against one store               *)
(***************************************************************************)
\* longest batch handed to process_documents in the model
MaxBatch == 2

\* the %s placeholders of insert_sql and the entries of the values tuple
InsertPlaceholders == 19
InsertParams == 20

\* the placeholders and parameters of the agencies INSERT IGNORE
AgencyPlaceholders == 3
AgencyParams == 3

\* cursor.execute(operation, params) of mysql.connector raises ProgrammingError
\* ("Not all parameters were used in the SQL statement") when the statement
\* has fewer placeholders than params holds values, and when it has more
ExecuteRaises(placeholders, params) == placeholders # params

\* merged documents: A in two versions, B with an id only, N without a number
DocA1 == <<<<"document_number", Str("A")>>, <<"title", Str("Rule")>>,
           <<"agencies", List(<<Dict(EPA), Dict(FDA)>>)>>>>
DocA2 == <<<<"document_number", Str("A")>>, <<"title", Str("Rule (final)")>>,
           <<"agencies", List(<<Dict(FDA)>>)>>>>
DocB == <<<<"id", Str("B")>>, <<"title", Str("Notice")>>, <<"agencies", List(<<>>)>>>>
DocN == <<<<"title", Str("Untitled")>>, <<"document_number", Null>>>>
PersistDocs == {DocA1, DocA2, DocB, DocN}

RECURSIVE SeqsUpTo(_, _)
\* the sequences over S of length 0..n
SeqsUpTo(S, n) ==
    IF n = 0 THEN {<<>>}
    ELSE LET shorter == SeqsUpTo(S, n - 1)
         IN  shorter \cup { Append(q, x) : q \in shorter, x \in S }

\* the non-empty batches
Batches == SeqsUpTo(PersistDocs, MaxBatch) \ {<<>>}

\* the values tuple of the documents INSERT (the columns the model keeps)
Values(doc, doc_num, content_hash) ==
    [id |-> doc_num,
     document_number |-> GetOr(doc, "document_number", Str("")),
     title |-> Get(doc, "title"),
     abstract |-> Get(doc, "abstract"),
     agencies |-> IF Truthy(Get(doc, "agencies"))
                  THEN Str(JsonDumps(Get(doc, "agencies"), FALSE)) ELSE Null,
     raw_json |-> Str(JsonDumps(Dict(doc), FALSE)),
     content_hash |-> content_hash]

\* INSERT INTO documents ... ON DUPLICATE KEY UPDATE: a new row, or every
\* column but id and document_number of the row with that id replaced
Upsert(docs, values) ==
    IF values.id \in DOMAIN docs
    THEN [docs EXCEPT ![values.id] =
            [values EXCEPT !.document_number = docs[values.id].document_number]]
    ELSE [x \in DOMAIN docs \cup {values.id} |->
            IF x = values.id THEN values ELSE docs[x]]

\* utf8mb4_unicode_ci compares names without regard to case
CollationKey(name) == IF name = "epa" THEN "EPA" ELSE name

\* INSERT IGNORE INTO agencies: no row when (document_id, name) is there already
InsertIgnore(agencies, doc_num, name, raw_json) ==
    IF \E r \in agencies :
          r.document_id = doc_num /\ CollationKey(r.name) = CollationKey(name)
    THEN agencies
    ELSE agencies \cup {[document_id |-> doc_num, name |-> name, raw_json |-> raw_json]}

\* name = agency.get('name') if isinstance(agency, dict) else str(agency)
AgencyName(agency) ==
    IF agency.t = "dict" THEN Get(agency.v, "name")
    ELSE IF agency.t = "str" THEN agency ELSE Str("None")

RECURSIVE InsertAgencies(_, _, _, _, _)
\* the loop over the agencies of one document, from entry i on; the entries in
\* failing raise in execute and are passed over
InsertAgencies(agencies, doc_num, list, i, failing) ==
    IF i > Len(list) THEN agencies
    ELSE LET name == AgencyName(list[i])
             next == IF ~Truthy(name) \/ i \in failing
                        \/ ExecuteRaises(AgencyPlaceholders, AgencyParams)
                     THEN agencies
                     ELSE InsertIgnore(agencies, doc_num, name.v,
                                       JsonDumps(list[i], FALSE))
         IN  InsertAgencies(next, doc_num, list, i + 1, failing)

\* agencies = doc.get('agencies', []) or []; only a list is walked
AgencyList(doc) ==
    LET agencies == Get(doc, "agencies")
    IN  IF Truthy(agencies) /\ agencies.t = "list" THEN agencies.v ELSE <<>>

\* the tables after the upsert of doc and the inserts of its agency rows
Written(tables, doc, failing) ==
    LET doc_num == DocNum(doc).v
    IN  [docs |-> Upsert(tables.docs, Values(doc, doc_num, ContentHash(doc))),
         agencies |-> InsertAgencies(tables.agencies, doc_num, AgencyList(doc), 1, failing)]

RECURSIVE Stored(_)
\* the tables of a store into which the documents of docs were written in turn
Stored(docs) ==
    IF docs = <<>> THEN [docs |-> <<>>, agencies |-> {}]
    ELSE Written(Stored(SubSeq(docs, 1, Len(docs) - 1)), docs[Len(docs)], {})

\* the tables process_documents can meet: the store outlives the process
\* (CREATE TABLE IF NOT EXISTS keeps what is there and repairs nothing), so
\* it is empty or holds rows written earlier, by whatever wrote them.  The
\* schema ties no agency row to the agencies column of a document, so a
\* stored document may lack the row of one of its agency names
InitStores ==
    { Stored(<<>>), Stored(<<DocA1, DocB>>), Stored(<<DocA2>>),
      \* A with the digest of DocA1 and the row (A, FDA), without (A, EPA)
      Written(Stored(<<>>), DocA1, {1}) }

\* the positions of the agency lists of the model's documents
AgencyPositions == {1, 2}

\* what the store can do to a statement: nothing, fail it (lock wait timeout,
\* deadlock), or drop the connection
StatementFaults == {"none", "error", "lost"}

\* DELETE FROM agencies WHERE document_id = doc_num ahead of the upsert: the
\* agency rows of the document would be rebuilt from its list
ClearAgenciesBeforeUpsert(tables, doc_num) ==
    [tables EXCEPT !.agencies = { r \in tables.agencies : r.document_id # doc_num }]

\* the tables when the upsert is executed: between the digest test and the
\* INSERT the values tuple is built and no statement is sent to the store
StatementsBeforeUpsert(tables, doc_num) == tables

PersistInit ==
    /\ HashIdle /\ FetchIdle /\ AgentIdle /\ CacheIdle
    /\ db \in InitStores
    /\ tx = db /\ db_before = db
    /\ batch = <<>> /\ idx = 0 /\ processed_count = 0 /\ skipped_count = 0
    /\ conn_lost = FALSE /\ ppc = "idle" /\ outcome = ""
    /\ branches = <<>> /\ store_faults = 0 /\ commits = 0 /\ rerun = FALSE
    /\ agency_faults = {}

\* conn.commit() moved into the for loop: the call commits and returns after
\* its first document
AtCommitInsideLoop(i, docs) == i > 1

\* the for loop is over and the call is at conn.commit()
AtCommit(i, docs) == i > Len(docs)

\* process_documents([]): 'No documents to process', nothing is opened
CallEmpty ==
    /\ ppc = "idle"
    /\ batch' = <<>> /\ idx' = 0
    /\ processed_count' = 0 /\ skipped_count' = 0
    /\ outcome' = "returned"
    /\ db_before' = db /\ tx' = db
    /\ branches' = <<>> /\ store_faults' = 0 /\ commits' = 0 /\ rerun' = FALSE
    /\ agency_faults' = {}
    /\ UNCHANGED <<db, conn_lost, ppc, hashVars, fetchVars, agentVars, cacheVars>>

\* process_documents(documents): connect, start the transaction, enter the loop
Call ==
    /\ ppc = "idle"
    /\ \E documents \in Batches :
          /\ batch' = documents
          /\ rerun' = (documents = batch /\ outcome = "returned" /\ store_faults = 0)
    /\ idx' = 1 /\ processed_count' = 0 /\ skipped_count' = 0
    /\ conn_lost' = FALSE /\ ppc' = "loop" /\ outcome' = ""
    /\ db_before' = db /\ tx' = db
    /\ branches' = <<>> /\ store_faults' = 0 /\ commits' = 0
    /\ agency_faults' \in SUBSET AgencyPositions
    /\ UNCHANGED <<db, hashVars, fetchVars, agentVars, cacheVars>>

\* _get_conn raises Error: conn is None, nothing to roll back; raise
ConnectFails ==
    /\ ppc = "idle"
    /\ \E documents \in Batches : batch' = documents
    /\ idx' = 0 /\ processed_count' = 0 /\ skipped_count' = 0
    /\ outcome' = "raised"
    /\ db_before' = db /\ tx' = db
    /\ branches' = <<>> /\ store_faults' = 1 /\ commits' = 0 /\ rerun' = FALSE
    /\ agency_faults' = {}
    /\ UNCHANGED <<db, conn_lost, ppc, hashVars, fetchVars, agentVars, cacheVars>>

\* one pass of the for loop: the document at idx
ProcessDocument ==
    /\ ppc = "loop" /\ idx <= Len(batch)
    /\ \E fault \in StatementFaults :
          LET doc == batch[idx]
              doc_num == DocNum(doc)
              content_hash == ContentHash(doc)
              select_raises == conn_lost \/ fault # "none"
              stored == IF doc_num.v \in DOMAIN tx.docs
                        THEN tx.docs[doc_num.v].content_hash ELSE Null
          IN  IF ~Truthy(doc_num)
              THEN \* 'Skipping document without document_number'
                   /\ fault = "none"
                   /\ skipped_count' = skipped_count + 1
                   /\ branches' = Append(branches, "no_number")
                   /\ UNCHANGED <<tx, processed_count, conn_lost, store_faults>>
              ELSE IF select_raises
              THEN \* the SELECT raises Error: except Exception, skipped
                   /\ skipped_count' = skipped_count + 1
                   /\ branches' = Append(branches, "error")
                   /\ conn_lost' = (conn_lost \/ fault = "lost")
                   /\ store_faults' = store_faults + 1
                   /\ UNCHANGED <<tx, processed_count>>
              ELSE IF stored = content_hash
              THEN \* unchanged: continue
                   /\ branches' = Append(branches, "unchanged")
                   /\ UNCHANGED <<tx, processed_count, skipped_count, conn_lost,
                                  store_faults>>
              ELSE IF ExecuteRaises(InsertPlaceholders, InsertParams)
              THEN \* the INSERT raises ProgrammingError: except Exception, skipped
                   /\ tx' = StatementsBeforeUpsert(tx, doc_num.v)
                   /\ skipped_count' = skipped_count + 1
                   /\ branches' = Append(branches, "error")
                   /\ UNCHANGED <<processed_count, conn_lost, store_faults>>
              ELSE \* the upsert, then the agency rows; a failing agency insert
                   \* is logged and passed over
                   /\ tx' = Written(StatementsBeforeUpsert(tx, doc_num.v), doc, agency_faults)
                   /\ processed_count' = processed_count + 1
                   /\ branches' = Append(branches, "upserted")
                   /\ UNCHANGED <<skipped_count, conn_lost, store_faults>>
    /\ idx' = idx + 1
    /\ UNCHANGED <<db, batch, ppc, outcome, db_before, commits, rerun, agency_faults,
                   hashVars, fetchVars, agentVars, cacheVars>>

\* conn.commit() succeeds; cursor and connection are closed; return
Commit ==
    /\ ppc = "loop" /\ AtCommit(idx, batch)
    /\ ~conn_lost
    /\ db' = tx
    /\ commits' = commits + 1
    /\ ppc' = "idle" /\ outcome' = "returned"
    /\ UNCHANGED <<tx, batch, idx, processed_count, skipped_count, conn_lost, db_before,
                   branches, store_faults, rerun, agency_faults, hashVars, fetchVars, agentVars, cacheVars>>

\* conn.commit() raises Error: except Error, conn.rollback(), raise
CommitFails ==
    /\ ppc = "loop" /\ AtCommit(idx, batch)
    /\ tx' = db
    /\ store_faults' = store_faults + 1
    /\ ppc' = "idle" /\ outcome' = "raised"
    /\ UNCHANGED <<db, batch, idx, processed_count, skipped_count, conn_lost, db_before,
                   branches, commits, rerun, agency_faults, hashVars, fetchVars, agentVars, cacheVars>>

PersistNext == CallEmpty \/ Call \/ ConnectFails \/ ProcessDocument \/ Commit \/ CommitFails

SpecPersist == PersistInit /\ [][PersistNext]_vars

(***************************************************************************)
(* Properties of process_documents                                         *)
(***************************************************************************)
\* every document of the batch has a document number and no two share one
DistinctNumbers(docs) ==
    /\ \A i \in 1..Len(docs) : Truthy(DocNum(docs[i]))
    /\ \A i, j \in 1..Len(docs) : DocNum(docs[i]) = DocNum(docs[j]) => i = j

\* the last call committed and returned, and the store raised no error in it
ReturnedClean == ppc = "idle" /\ outcome = "returned" /\ commits = 1 /\ store_faults = 0

\* the agency rows the tables hold for a document id
AgencyRows(tables, doc_num) == { r \in tables.agencies : r.document_id = doc_num }

\* the non-empty agency names of a document's agency list
AgencyNames(doc) ==
    { AgencyName(AgencyList(doc)[i]).v :
        i \in { k \in 1..Len(AgencyList(doc)) : Truthy(AgencyName(AgencyList(doc)[k])) } }

\* C1: a second process_documents(D) right after a first one that ran to
\* completion changes no row of documents or agencies, and every document of
\* the second run is skipped through the digest-match branch.  (Stated for
\* batches whose documents carry distinct document numbers and for runs in
\* which the store raises no error.)
IdempotenceByDigest ==
    (ReturnedClean /\ rerun /\ DistinctNumbers(batch)) =>
        /\ db = db_before
        /\ \A i \in 1..Len(batch) : branches[i] = "unchanged"

\* C2: after a run that commits, every document of the batch that has a
\* document number and was new or changed has a row under that number whose
\* content_hash is the digest computed for it in this run.  (Stated for
\* batches with distinct numbers and runs without store errors.)
UpsertTakesEffect ==
    (ReturnedClean /\ DistinctNumbers(batch)) =>
        \A i \in 1..Len(batch) :
           branches[i] # "unchanged" =>
              /\ DocNum(batch[i]).v \in DOMAIN db.docs
              /\ db.docs[DocNum(batch[i]).v].content_hash = ContentHash(batch[i])

\* C8: after process_documents commits a document that was not in the store
\* and whose agency list holds k distinct non-empty names, the agencies
\* relation holds exactly k rows for its id, one per name; and (document_id,
\* name) is unique in the agencies relation at all times.
AgencyNormalization ==
    /\ \A r1, r2 \in db.agencies :
          (r1.document_id = r2.document_id /\ r1.name = r2.name) => r1 = r2
    /\ (ReturnedClean /\ DistinctNumbers(batch)) =>
          \A i \in 1..Len(batch) :
             DocNum(batch[i]).v \notin DOMAIN db_before.docs =>
                /\ { r.name : r \in AgencyRows(db, DocNum(batch[i]).v) } = AgencyNames(batch[i])
                /\ Cardinality(AgencyRows(db, DocNum(batch[i]).v))
                      = Cardinality(AgencyNames(batch[i]))

\* C9: when the store raises an error at any point of a call, also in a
\* statement executed for one document, the call ends by raising it.
StoreErrorRaises ==
    (ppc = "idle" /\ store_faults > 0) => outcome = "raised"

\* C10: the writes of a call reach the committed tables only through one
\* commit, made after the last document of the batch; while the loop runs the
\* committed tables are those of before the call; and when the call raises,
\* the transaction is rolled back and the tables are exactly as before the
\* call.
BatchAtomicity ==
    /\ commits <= 1
    /\ commits = 1 => idx > Len(batch) /\ outcome = "returned"
    /\ ppc = "loop" => db = db_before /\ commits = 0
    /\ outcome = "raised" => db = db_before /\ tx = db /\ commits = 0

\* a call went through a batch of two documents, one of them new to the store,
\* over a working connection; its commit failed and the call raised
BatchAtomicityWitness ==
    /\ ppc = "idle" /\ outcome = "raised"
    /\ Len(batch) = 2 /\ idx = 3
    /\ ~conn_lost
    /\ \E i \in 1..2 : branches[i] = "error" /\ DocNum(batch[i]).v \notin DOMAIN db.docs
    /\ db.docs # <<>>

\* the document at position j is the last of the batch under its number
LastUnderNumber(docs, j) ==
    \A k \in (j + 1)..Len(docs) : DocNum(docs[k]) # DocNum(docs[j])

\* the documents table holds the row of doc with the digest of doc
RowCommitted(tables, doc) ==
    /\ DocNum(doc).v \in DOMAIN tables.docs
    /\ tables.docs[DocNum(doc).v].content_hash = ContentHash(doc)

\* C11: when one document of a batch ends in a per-document error (here: it
\* has no document number), the skipped count holds one for it, every later
\* document went through the loop, and the call committed the batch with the
\* rows of the other documents.  (Runs in which the store raises no error.)
PerDocumentErrorIsolated ==
    ReturnedClean =>
        \A i \in 1..Len(batch) :
           branches[i] = "no_number" =>
              /\ Len(branches) = Len(batch)
              /\ skipped_count =
                    Cardinality({ k \in 1..Len(batch) : branches[k] \in {"no_number", "error"} })
              /\ \A j \in (1..Len(batch)) \ {i} :
                    (Truthy(DocNum(batch[j])) /\ LastUnderNumber(batch, j)) =>
                        RowCommitted(db, batch[j])

\* C12: when the store fails the insert of an agency row of a new or changed
\* document, the document's row is in the committed tables with its digest,
\* the document took the upsert branch and is counted as processed, and its
\* other agencies have their rows.  (Batches with distinct numbers, runs in
\* which the store raises no other error.)
AgencyFailureIsolated ==
    (ReturnedClean /\ DistinctNumbers(batch)) =>
        \A i \in 1..Len(batch) :
           LET list == AgencyList(batch[i])
               failed == agency_faults \cap (1..Len(list))
           IN  (branches[i] # "unchanged" /\ failed # {}) =>
                  /\ RowCommitted(db, batch[i])
                  /\ branches[i] = "upserted"
                  /\ processed_count >= 1
                  /\ \A k \in (1..Len(list)) \ failed :
                        Truthy(AgencyName(list[k])) =>
                           \E r \in AgencyRows(db, DocNum(batch[i]).v) :
                              CollationKey(r.name) = CollationKey(AgencyName(list[k]).v)

\* the document at position i is the only one of the batch under its number
OnlyUnderNumber(docs, i) ==
    \A k \in (1..Len(docs)) \ {i} : DocNum(docs[k]) # DocNum(docs[i])

\* C32: no step of a process_documents run removes a row of documents or of
\* agencies from the committed tables, so the stored ids only grow; after a
\* committed run that met a stored document with a changed agency list, the
\* agency rows of that document for names no longer in the list are still
\* there; and a document skipped on digest match has the agency rows it had
\* before the run, no more.
NeverDeletes ==
    /\ [][/\ DOMAIN db.docs \subseteq DOMAIN db'.docs
          /\ db.agencies \subseteq db'.agencies]_vars
    /\ [](ReturnedClean =>
            \A i \in 1..Len(batch) :
               Truthy(DocNum(batch[i])) =>
                  LET id == DocNum(batch[i]).v
                  IN  /\ id \in DOMAIN db_before.docs => id \in DOMAIN db.docs
                      /\ \A r \in AgencyRows(db_before, id) :
                            r.name \notin AgencyNames(batch[i]) => r \in db.agencies
                      /\ (branches[i] = "unchanged" /\ OnlyUnderNumber(batch, i)) =>
                            AgencyRows(db, id) = AgencyRows(db_before, id))

\* a committed run met document A, stored with agencies EPA and FDA, with a
\* list that holds FDA only, and skipped document B on digest match: the
\* (A, EPA) row is still in the agencies relation
NeverDeletesWitness ==
    /\ ReturnedClean
    /\ batch = <<DocA2, DocB>>
    /\ db_before = Stored(<<DocA1, DocB>>)
    /\ branches[2] = "unchanged"
    /\ "EPA" \notin AgencyNames(DocA2)
    /\ \E r \in AgencyRows(db, "A") : r.name = "EPA"

\* the agencies relation of tables holds a row of document id under the name
HasAgencyRow(tables, id, name) ==
    \E r \in AgencyRows(tables, id) : CollationKey(r.name) = CollationKey(name)

ToLower ==
    ("A" :> "a") @@ ("B" :> "b") @@ ("C" :> "c") @@ ("D" :> "d") @@ ("E" :> "e") @@
    ("F" :> "f") @@ ("G" :> "g") @@ ("H" :> "h") @@ ("I" :> "i") @@ ("J" :> "j") @@
    ("K" :> "k") @@ ("L" :> "l") @@ ("M" :> "m") @@ ("N" :> "n") @@ ("O" :> "o") @@
    ("P" :> "p") @@ ("Q" :> "q") @@ ("R" :> "r") @@ ("S" :> "s") @@ ("T" :> "t") @@
    ("U" :> "u") @@ ("V" :> "v") @@ ("W" :> "w") @@ ("X" :> "x") @@ ("Y" :> "y") @@
    ("Z" :> "z")

DigitValue ==
    ("0" :> 0) @@ ("1" :> 1) @@ ("2" :> 2) @@ ("3" :> 3) @@ ("4" :> 4) @@
    ("5" :> 5) @@ ("6" :> 6) @@ ("7" :> 7) @@ ("8" :> 8) @@ ("9" :> 9)

UpperLetters == DOMAIN ToLower
LowerLetters == { ToLower[c] : c \in UpperLetters }
Digits == DOMAIN DigitValue
Whitespace == {" "}

\* str.lower()
LowerChar(c) == IF c \in UpperLetters THEN ToLower[c] ELSE c
LowerStr(s) == [i \in 1..Len(s) |-> LowerChar(s[i])]

\* str.strip()
Strip(s) ==
    LET inked == { i \in 1..Len(s) : s[i] \notin Whitespace }
    IN  IF inked = {} THEN <<>>
        ELSE SubSeq(s, CHOOSE i \in inked : \A k \in inked : i <= k,
                       CHOOSE i \in inked : \A k \in inked : i >= k)

\* str.startswith(p)
StartsWith(s, p) == Len(s) >= Len(p) /\ SubSeq(s, 1, Len(p)) = p

\* s[n:]
Drop(s, n) == SubSeq(s, n + 1, Len(s))

RECURSIVE Runs(_, _, _)
\* the maximal runs of characters of the set chars in s, from position i on,
\* left to right
Runs(s, i, chars) ==
    IF i > Len(s) THEN <<>>
    ELSE IF s[i] \notin chars THEN Runs(s, i + 1, chars)
    ELSE LET j == CHOOSE e \in i..Len(s) :
                     /\ \A k \in i..e : s[k] \in chars
                     /\ (e = Len(s) \/ s[e + 1] \notin chars)
         IN  <<SubSeq(s, i, j)>> \o Runs(s, j + 1, chars)

\* re.findall(r"[A-Za-z0-9\-']+", s)
TokenChars == UpperLetters \cup LowerLetters \cup Digits \cup {"-", "'"}
Tokens(s) == Runs(s, 1, TokenChars)

\* str.split()
Split(s) == Runs(s, 1, { s[i] : i \in 1..Len(s) } \ Whitespace)

\* the characters str.isdigit() accepts: the decimal digits and other Unicode
\* digits such as the superscripts, which int() does not read
DigitLike == Digits \cup {"²"}

\* str.isdigit()
IsDigit(s) == s # <<>> /\ \A i \in 1..Len(s) : s[i] \in DigitLike

\* int(s) raises ValueError
IntRaises(s) == s = <<>> \/ \E i \in 1..Len(s) : s[i] \notin Digits

RECURSIVE ToInt(_)
\* int(s) of a string of digits
ToInt(s) ==
    IF s = <<>> THEN 0
    ELSE 10 * ToInt(SubSeq(s, 1, Len(s) - 1)) + DigitValue[s[Len(s)]]

\* q occurs in text as a substring, letters compared without regard to case
ContainsCI(text, q) ==
    \E i \in 1..(Len(text) + 1) :
       /\ i + Len(q) - 1 <= Len(text)
       /\ LowerStr(SubSeq(text, i, i + Len(q) - 1)) = LowerStr(q)

(***************************************************************************)
(* The statements of _query_mysql as the store evaluates them              *)
(***************************************************************************)
RECURSIVE Like(_, _, _, _)
\* text LIKE pat under utf8mb4_unicode_ci, from position i of text and j of
\* pat: % stands for any run of characters, _ for any one character, every
\* other character for itself without regard to case
Like(text, i, pat, j) ==
    IF j > Len(pat) THEN i > Len(text)
    ELSE IF pat[j] = "%"
    THEN \E k \in i..(Len(text) + 1) : Like(text, k, pat, j + 1)
    ELSE /\ i <= Len(text)
         /\ (pat[j] = "_" \/ LowerChar(pat[j]) = LowerChar(text[i]))
         /\ Like(text, i + 1, pat, j + 1)

\* column LIKE %s: NULL LIKE ... is not true
ColumnLike(column, pat) == column.t # "null" /\ Like(column.v, 1, pat, 1)

\* like = f"%{q}%"
LikePattern(q) == <<"%">> \o q \o <<"%">>

\* the columns of the substring statement
LikeColumns == <<"title", "abstract", "excerpt", "full_text", "raw_json">>

\* the columns of MATCH(...) in the fulltext statement
MatchColumns == <<"title", "abstract", "excerpt", "raw_json">>

\* the FULLTEXT indexes create_indexes adds
CreatedIndexes == { <<"title", "abstract", "excerpt">>, <<"raw_json">> }

\* the words the fulltext parser of the store cuts a text into: runs of
\* letters, digits and underscores, of innodb_ft_min_token_size (3) or more
\* characters, compared without regard to case
FtMinTokenSize == 3
WordChars == UpperLetters \cup LowerLetters \cup Digits \cup {"_"}
Words(text) ==
    LET runs == Runs(LowerStr(text), 1, WordChars)
    IN  { runs[i] : i \in { k \in 1..Len(runs) : Len(runs[k]) >= FtMinTokenSize } }

\* MATCH(...) AGAINST (q IN NATURAL LANGUAGE MODE): the number of (column,
\* word of q) pairs found; a row is selected when it is above 0
Relevance(row, q) ==
    Cardinality({ <<c, w>> \in (1..Len(MatchColumns)) \X Words(q) :
                    /\ row[MatchColumns[c]].t # "null"
                    /\ w \in Words(row[MatchColumns[c]].v) })

\* JSON_CONTAINS(agencies, JSON_OBJECT('name', agency)): some element of the
\* agencies array is an object whose name is exactly agency
JsonContainsName(agencies, agency) ==
    agencies.t # "null" /\ \E i \in 1..Len(agencies.v) : agencies.v[i] = agency

\* filters without an agency
NoAgency == <<>>

\* the statement _query_mysql builds: "fulltext", "like" or "listing"
StatementMode(q, fulltext) ==
    IF q # <<>> /\ fulltext THEN "fulltext"
    ELSE IF q # <<>> THEN "like"
    ELSE "listing"

\* the WHERE clause without the parentheses around the LIKE alternatives: AND
\* binds tighter than OR, so the filter would go with raw_json LIKE only
WhereFilterOnLastAlternative(row, q, agency, stmt) ==
    LET filter == agency # NoAgency => JsonContainsName(row.agencies, agency)
    IN  CASE stmt = "fulltext" -> Relevance(row, q) > 0 /\ filter
          [] stmt = "like" ->
                \/ \E c \in 1..(Len(LikeColumns) - 1) :
                      ColumnLike(row[LikeColumns[c]], LikePattern(q))
                \/ /\ ColumnLike(row[LikeColumns[Len(LikeColumns)]], LikePattern(q))
                   /\ filter
          [] stmt = "listing" -> filter

\* the WHERE clause of the statement
Where(row, q, agency, stmt) ==
    /\ CASE stmt = "fulltext" -> Relevance(row, q) > 0
         [] stmt = "like" ->
               \E c \in 1..Len(LikeColumns) : ColumnLike(row[LikeColumns[c]], LikePattern(q))
         [] stmt = "listing" -> TRUE
    /\ (agency # NoAgency => JsonContainsName(row.agencies, agency))

\* publication_date as ORDER BY ... DESC ranks it: NULL after every date
DateRank(row) == IF row.publication_date.t = "null" THEN 0 ELSE row.publication_date.v

\* ORDER BY relevance DESC
SortKeyRelevance(row, q) == Relevance(row, q)

\* ORDER BY publication_date DESC
SortKey(row, q) == DateRank(row)

\* the orders in which the store may return the rows of a set under ORDER BY
\* ... DESC (rows with equal keys in any order)
Ordered(selected, q) ==
    LET n == Cardinality(selected)
    IN  { s \in [1..n -> selected] :
            /\ \A i, j \in 1..n : s[i] = s[j] => i = j
            /\ \A i \in 1..(n - 1) : SortKey(s[i], q) >= SortKey(s[i + 1], q) }

\* LIMIT lim
Limit(s, lim) == SubSeq(s, 1, Min(lim, Len(s)))

\* the columns a statement selects (relevance in the fulltext statement)
Project(row, q, stmt) ==
    LET cols == [id |-> row.id, title |-> row.title, abstract |-> row.abstract,
                 excerpt |-> row.excerpt, publication_date |-> row.publication_date,
                 agencies |-> row.agencies]
    IN  IF stmt = "fulltext" THEN cols @@ [relevance |-> Relevance(row, q)] ELSE cols

\* cursor.execute raises: the store fails the statement, or it is the
\* fulltext statement and no FULLTEXT index covers exactly the MATCH columns
\* (error 1191)
StatementRaises(stmt, indexes, fault) ==
    fault \/ (stmt = "fulltext" /\ MatchColumns \notin indexes)

\* cur.fetchall() of the statement
FetchAll(docs, q, agency, lim, stmt) ==
    { [i \in 1..Len(Limit(s, lim)) |-> Project(s[i], q, stmt)] :
        s \in Ordered({ row \in docs : Where(row, q, agency, stmt) }, q) }

(***************************************************************************)
(* SpecAgent: one chat or run call of FederalAgent                         *)
(***************************************************************************)
\* words, as character sequences
w_pest == <<"p", "e", "s", "t">>
w_air == <<"a", "i", "r">>
w_rule == <<"r", "u", "l", "e">>
w_hello == <<"h", "e", "l", "l", "o">>
w_there == <<"t", "h", "e", "r", "e">>
w_search == <<"s", "e", "a", "r", "c", "h">>
w_find == <<"f", "i", "n", "d">>
w_recent == <<"r", "e", "c", "e", "n", "t">>
w_help == <<"h", "e", "l", "p">>
w_get == <<"g", "e", "t">>
w_show == <<"s", "h", "o", "w">>
w_EPA == <<"E", "P", "A">>
w_FDA == <<"F", "D", "A">>
Sp == <<" ">>

\* json.dumps of a payload that holds the title only
RawJson(title) ==
    <<"{", "\"", "t", "i", "t", "l", "e", "\"", ":", " ">> \o
    (IF title.t = "null" THEN <<"n", "u", "l", "l">> ELSE <<"\"">> \o title.v \o <<"\"">>)
    \o <<"}">>

Date(n) == [t |-> "date", v |-> n]

\* a row of the documents table (the columns _query_mysql reads)
Row(id, title, abstract, excerpt, full_text, date, agencies) ==
    [id |-> id, title |-> title, abstract |-> abstract, excerpt |-> excerpt,
     full_text |-> full_text, raw_json |-> Str(RawJson(title)),
     publication_date |-> date, agencies |-> agencies]

RowA == Row("A", Str(<<"P", "e", "s", "t">> \o Sp \o w_rule), Null, Null, Null,
            Date(3), List(<<w_EPA>>))
RowB == Row("B", Str(<<"A", "i", "r">>), Str(<<"A", "i", "r">> \o Sp \o <<"t", "a", "x">>),
            Null, Null, Date(2), List(<<w_FDA>>))
RowC == Row("C", Str(<<"A", "i", "r">>), Null, Null, Str(<<"n", "o">> \o Sp \o w_pest),
            Date(3), List(<<w_EPA, w_FDA>>))
RowD == Row("D", Null, Null, Str(<<"p", "a", "s", "t">> \o Sp \o <<"d", "u", "e">>), Null,
            Null, Null)

\* the documents tables of the model.  The store outlives the processes that
\* read it and write it, so any set of rows of the schema can be met.
Corpora == SUBSET {RowA, RowB, RowC, RowD}

\* the FULLTEXT indexes the table can carry: none (create_indexes failed),
\* those of create_indexes, and those with an index over the MATCH columns
\* added by hand
IndexSets == { {}, CreatedIndexes, CreatedIndexes \cup {MatchColumns} }

\* the snapshot _get_help_metadata returns when the store fails, and a
\* snapshot computed from a populated store
EmptySnapshot == [keywords |-> <<>>, agencies |-> <<>>, document_types |-> <<>>]
FullSnapshot ==
    [keywords |-> <<w_pest, <<"p", "u", "b", "l", "i", "c">>>>,
     agencies |-> << <<"A", "i", "r">> \o Sp \o <<"B", "o", "a", "r", "d">> >>,
     document_types |-> << <<"R", "u", "l", "e">> >>]
Snapshots == {EmptySnapshot, FullSnapshot}

\* the arguments of direct run calls
Queries == { <<>>, w_pest, <<"P", "E", "S", "T">>, Sp \o w_air \o Sp, <<"p", "_", "s", "t">> }
AgencyFilters == { NoAgency, w_EPA }
Limits == {1, 2, 25}

\* limit: int = 25
DEFAULT_LIMIT == 25

\* the chat messages of the model
Messages ==
    { <<>>, Sp \o Sp,
      w_search \o Sp \o w_pest,
      <<"S", "e", "a", "r", "c", "h">> \o Sp \o Sp \o <<"P", "e", "s", "t">> \o Sp,
      w_search \o Sp \o w_hello,
      w_search,
      w_find \o Sp \o w_EPA,
      w_recent \o Sp \o <<"2">>,
      w_recent \o Sp \o <<"x">>,
      w_recent,
      w_recent \o Sp \o <<"2">> \o Sp \o <<"1">>,
      w_recent \o Sp \o <<"²">>,
      w_help \o Sp \o w_pest,
      w_help,
      w_hello,
      w_pest,
      <<"P", "e", "s", "t">> \o Sp \o w_hello,
      w_hello \o Sp \o w_there,
      <<"a", " ", "b", " ", "c", " ", "d", " ", "e", " ">> \o w_pest,
      <<"a", " ", "b", " ", "c", " ", "d", " ">> \o w_pest,
      <<"x", " ", "x", " ", "x", " ", "x", " ", "x", " ">> \o w_pest,
      <<"a", " ", "b", " ", "c">>,
      <<"?", "?">>,
      w_get \o Sp \o w_pest }

\* cmd_prefixes without "search ": the search command would reach the gate
CmdPrefixesNoSearch ==
    << w_find \o Sp, w_recent, w_help, w_get \o Sp, w_show \o Sp >>

\* cmd_prefixes = ("search ", "find ", "recent", "help", "get ", "show ")
CmdPrefixes ==
    << w_search \o Sp, w_find \o Sp, w_recent, w_help, w_get \o Sp, w_show \o Sp >>

\* the thresholds of the gate, in hundredths
SHORT_INPUT_THRESHOLD == 33
OVERLAP_THRESHOLD == 18

Max(a, b) == IF a > b THEN a ELSE b

\* max(1, len(tokens)): every token counted, repeated or not
DenominatorAllTokens(tokens) == Max(1, Len(tokens))

\* max(1, len(msg_tokens)): the distinct tokens of the input
Denominator(tokens) == Max(1, Cardinality({ tokens[i] : i \in 1..Len(tokens) }))

\* domain_tokens: the tokens of the snapshot's keywords, agencies and types
DomainTokens(snap) ==
    LET entries == snap.keywords \o snap.agencies \o snap.document_types
    IN  UNION { Range(Tokens(LowerStr(entries[i]))) : i \in 1..Len(entries) }

\* overlap = msg_tokens & domain_tokens
Overlap(tokens, snap) == { tokens[i] : i \in 1..Len(tokens) } \cap DomainTokens(snap)

\* overlap_ratio >= threshold.  The ratio is a quotient of two counts below
\* 50, so it equals neither threshold and the comparison of the floats is the
\* comparison of the fractions
RatioAtLeast(overlap, denominator, hundredths) == 100 * overlap >= hundredths * denominator

\* the two if statements of the gate
Accepts(tokens, snap) ==
    LET n == Cardinality(Overlap(tokens, snap))
        d == Denominator(tokens)
    IN  \/ Len(tokens) <= 2 /\ RatioAtLeast(n, d, SHORT_INPUT_THRESHOLD)
        \/ Len(tokens) > 2 /\ RatioAtLeast(n, d, OVERLAP_THRESHOLD)

\* self.run(msg): the query as typed
GateQueryAsTyped(msg, lower) == msg

\* self.run(lower): the whole lowercased input
GateQuery(msg, lower) == lower

\* what chat returns without a search: the text and, for the refusal, the
\* command forms it lists
ReplyOf(kind) ==
    [kind |-> kind,
     forms |-> IF kind = "refusal"
               THEN {"search <keyword>", "find <agency>", "recent <N>", "help"}
               ELSE {}]

\* a run call
RunCall(query, agency, limit) == [query |-> query, agency |-> agency, limit |-> limit]

\* chat(message) up to its return or its call of run:
\* [run: a RunCall or <<>>, reply: the reply when nothing is run (kind
\* "raised": the call ended with an exception instead), gate]
ChatOutcome(text, snap) ==
    LET msg == Strip(text)
        lower == Strip(LowerStr(msg))
        command == \E k \in 1..Len(CmdPrefixes) :
                      lower = Strip(CmdPrefixes[k]) \/ StartsWith(lower, CmdPrefixes[k])
        parts == Split(msg)
        tokens == Tokens(lower)
        Returns(kind) == [run |-> <<>>, reply |-> ReplyOf(kind), gate |-> ""]
        Runs_(query, agency, limit, verdict) ==
            [run |-> RunCall(query, agency, limit), reply |-> <<>>, gate |-> verdict]
    IN  IF msg = <<>> THEN Returns("prompt")
        ELSE IF command /\ StartsWith(lower, w_recent)
        THEN IF Len(parts) = 2 /\ IsDigit(parts[2])
             THEN IF IntRaises(parts[2]) THEN Returns("raised")
                  ELSE Runs_(<<>>, NoAgency, ToInt(parts[2]), "")
             ELSE Returns("usage_recent")
        ELSE IF command /\ StartsWith(lower, w_find \o Sp)
        THEN IF Strip(Drop(msg, Len(w_find \o Sp))) = <<>>
             THEN Returns("usage_find")
             ELSE Runs_(<<>>, Strip(Drop(msg, Len(w_find \o Sp))), DEFAULT_LIMIT, "")
        ELSE IF command /\ StartsWith(lower, w_search \o Sp)
        THEN IF Strip(Drop(msg, Len(w_search \o Sp))) = <<>>
             THEN Returns("usage_search")
             ELSE Runs_(Strip(Drop(msg, Len(w_search \o Sp))), NoAgency, DEFAULT_LIMIT, "")
        ELSE IF command /\ lower = w_help THEN Returns("help")
        ELSE IF tokens = <<>> THEN Returns("prompt")
        ELSE IF Accepts(tokens, snap)
        THEN Runs_(GateQuery(msg, lower), NoAgency, DEFAULT_LIMIT, "accepted")
        ELSE [run |-> <<>>, reply |-> ReplyOf("refusal"), gate |-> "rejected"]

AgentInit ==
    /\ HashIdle /\ FetchIdle /\ PersistIdle /\ CacheIdle
    /\ corpus \in Corpora
    /\ ft_indexes \in IndexSets
    /\ snapshot \in Snapshots
    /\ message = <<>> /\ call = <<>> /\ use_fulltext = FALSE
    /\ rows = <<>> /\ qfaults = {} /\ mode = "" /\ gate = "" /\ searches = <<>>
    /\ reply = <<>> /\ apc = "idle"

\* run(query, filters, limit) called directly (the structured-query operation)
Run ==
    /\ apc = "idle"
    /\ \E query \in Queries, agency \in AgencyFilters, limit \in Limits :
          /\ call' = RunCall(query, agency, limit)
          /\ searches' = <<RunCall(query, agency, limit)>>
    /\ apc' = "connect"
    /\ UNCHANGED <<corpus, ft_indexes, snapshot, message, use_fulltext, rows, qfaults, mode,
                   gate, reply, hashVars, fetchVars, persistVars, cacheVars>>

\* chat reaches meta = await self._get_help_metadata(): the help command, and
\* every input with a token that is not taken by a command branch
AwaitsMetadata(text) ==
    LET out == ChatOutcome(text, EmptySnapshot)
    IN  out.gate # "" \/ out.reply = ReplyOf("help")

\* the part of chat that follows what it awaited, or that awaits nothing: a
\* reply, or a call of run
ChatDecides(text, snap) ==
    LET out == ChatOutcome(text, snap)
    IN  /\ gate' = out.gate
        /\ IF out.run = <<>>
           THEN /\ reply' = out.reply
                /\ apc' = "done"
                /\ UNCHANGED <<call, searches>>
           ELSE /\ call' = out.run
                /\ searches' = <<out.run>>
                /\ apc' = "connect"
                /\ UNCHANGED reply

\* chat(message) up to its first suspension: an input that needs the metadata
\* while no fresh snapshot is cached waits for the recompute (the event loop
\* runs other callbacks meanwhile); with a fresh snapshot, or without need of
\* one, chat goes on to its reply or to its call of run
Chat ==
    /\ apc = "idle"
    /\ \E text \in Messages, fresh \in BOOLEAN :
          /\ message' = text
          /\ IF AwaitsMetadata(text) /\ ~fresh
             THEN /\ apc' = "meta"
                  /\ UNCHANGED <<gate, call, searches, reply>>
             ELSE ChatDecides(text, snapshot)
    /\ UNCHANGED <<corpus, ft_indexes, snapshot, use_fulltext, rows, qfaults, mode,
                   hashVars, fetchVars, persistVars, cacheVars>>

\* the recompute returns what it read from the store by then (the default
\* snapshot when the store failed); it is cached and chat resumes with it
ChatAfterMetadata ==
    /\ apc = "meta"
    /\ snapshot' \in Snapshots
    /\ ChatDecides(message, snapshot')
    /\ UNCHANGED <<corpus, ft_indexes, message, use_fulltext, rows, qfaults, mode,
                   hashVars, fetchVars, persistVars, cacheVars>>

\* FederalRegisterPipeline.create_indexes, run by a pipeline against the same
\* table at any moment: each ALTER TABLE ... ADD FULLTEXT adds its index, or
\* raises (1061 when the index exists) and is passed over
CreateIndexes ==
    /\ \E added \in SUBSET CreatedIndexes : ft_indexes' = ft_indexes \cup added
    /\ UNCHANGED <<corpus, snapshot, message, call, use_fulltext, rows, qfaults, mode, gate,
                   searches, reply, apc, hashVars, fetchVars, persistVars, cacheVars>>

\* _work: conn = self._get_db_connection(); a failure is caught: return []
Connect ==
    /\ apc = "connect"
    /\ \E fails \in BOOLEAN :
          IF fails
          THEN /\ qfaults' = qfaults \cup {"connect"}
               /\ rows' = <<>>
               /\ apc' = "format"
          ELSE /\ apc' = "probe"
               /\ UNCHANGED <<qfaults, rows>>
    /\ UNCHANGED <<corpus, ft_indexes, snapshot, message, call, use_fulltext, mode, gate,
                   searches, reply, hashVars, fetchVars, persistVars, cacheVars>>

\* use_fulltext left True by the handler of a failed probe
UseFulltextAfterProbeErrorTrue == TRUE

\* except Exception: use_fulltext = False
UseFulltextAfterProbeError == FALSE

\* SHOW INDEX ... WHERE Index_type='FULLTEXT': use_fulltext = bool(idx), or
\* False when the probe raises
Probe ==
    /\ apc = "probe"
    /\ \E fails \in BOOLEAN :
          IF fails
          THEN /\ qfaults' = qfaults \cup {"probe"}
               /\ use_fulltext' = UseFulltextAfterProbeError
          ELSE /\ use_fulltext' = (ft_indexes # {})
               /\ UNCHANGED qfaults
    /\ apc' = "execute"
    /\ UNCHANGED <<corpus, ft_indexes, snapshot, message, call, rows, mode, gate,
                   searches, reply, hashVars, fetchVars, persistVars, cacheVars>>

\* the statement is built and executed: rows = cur.fetchall(), or [] when
\* execute raises
Execute ==
    /\ apc = "execute"
    /\ LET q == Strip(call.query)
           stmt == StatementMode(q, use_fulltext)
       IN  /\ mode' = stmt
           /\ \E fault \in BOOLEAN :
                 IF StatementRaises(stmt, ft_indexes, fault)
                 THEN /\ qfaults' = qfaults \cup {"statement"}
                      /\ rows' = <<>>
                 ELSE /\ rows' \in FetchAll(corpus, q, call.agency, call.limit, stmt)
                      /\ UNCHANGED qfaults
    /\ apc' = "format"
    /\ UNCHANGED <<corpus, ft_indexes, snapshot, message, call, use_fulltext, gate,
                   searches, reply, hashVars, fetchVars, persistVars, cacheVars>>

\* run: "No relevant regulations found." for no rows, else the formatted rows
Format ==
    /\ apc = "format"
    /\ reply' = ReplyOf(IF rows = <<>> THEN "no_results" ELSE "results")
    /\ apc' = "done"
    /\ UNCHANGED <<corpus, ft_indexes, snapshot, message, call, use_fulltext, rows, qfaults,
                   mode, gate, searches, hashVars, fetchVars, persistVars, cacheVars>>

AgentNext ==
    \/ Run \/ Chat \/ ChatAfterMetadata \/ Connect \/ Probe \/ Execute \/ Format
    \/ CreateIndexes

SpecAgent == AgentInit /\ [][AgentNext]_vars

(***************************************************************************)
(* Properties of the agent                                                 *)
(***************************************************************************)
\* the row of the documents table with an id
RowOf(id) == CHOOSE row \in corpus : row.id = id

\* the ids of the returned rows
ReturnedIds == { rows[i].id : i \in 1..Len(rows) }

\* _query_mysql executed its statement and fetched the rows
Fetched == apc \in {"format", "done"} /\ mode # "" /\ "statement" \notin qfaults

\* q occurs, without regard to case, in one of the five searchable columns
OccursIn(row, q) ==
    \E c \in 1..Len(LikeColumns) :
       row[LikeColumns[c]].t # "null" /\ ContainsCI(row[LikeColumns[c]].v, q)

\* C13: in the substring mode (no fulltext index, or a failed probe; q not
\* empty) every returned document holds q as a case-insensitive substring of
\* title, abstract, excerpt, full text or raw payload, and every document that
\* does and passes the agency filter is returned unless the limit is reached.
FallbackSearch ==
    (Fetched /\ mode = "like") =>
        LET q == Strip(call.query)
        IN  /\ \A id \in ReturnedIds : OccursIn(RowOf(id), q)
            /\ \A row \in corpus :
                  (/\ OccursIn(row, q)
                   /\ (call.agency # NoAgency => JsonContainsName(row.agencies, call.agency)))
                  => (row.id \in ReturnedIds \/ Len(rows) = call.limit)

\* the rows the statement of the current mode selects
Matching == { row \in corpus : Where(row, Strip(call.query), call.agency, mode) }

\* C14: in every mode the returned list is ordered by publication date
\* descending, has Min(limit, number of matching documents) entries, all of
\* them matching and distinct, and no matching document left out has a later
\* date than a returned one; the relevance has no part in the order.
OrderingAndLimit ==
    Fetched =>
        /\ Len(rows) = Min(call.limit, Cardinality(Matching))
        /\ \A i \in 1..Len(rows) : RowOf(rows[i].id) \in Matching
        /\ \A i, j \in 1..Len(rows) : rows[i].id = rows[j].id => i = j
        /\ \A i \in 1..(Len(rows) - 1) : DateRank(rows[i]) >= DateRank(rows[i + 1])
        /\ \A row \in Matching :
              row.id \notin ReturnedIds =>
                 \A i \in 1..Len(rows) : DateRank(rows[i]) >= DateRank(row)

\* the fulltext statement returned one row under a limit of 1, and a matching
\* row of higher relevance and earlier date was left out
OrderingAndLimitWitness ==
    /\ Fetched /\ mode = "fulltext"
    /\ call.limit = 1 /\ Len(rows) = 1
    /\ \E row \in Matching :
          /\ row.id \notin ReturnedIds
          /\ Relevance(row, Strip(call.query)) > rows[1].relevance
          /\ DateRank(row) < DateRank(rows[1])

\* the tokens of the chat message as the gate sees them
MessageTokens == Tokens(Strip(LowerStr(Strip(message))))

\* C15 as stated: one token count n, repeated tokens included, selects the
\* threshold and divides the overlap.
GateThresholdsOneCount ==
    gate # "" =>
        LET n == Len(MessageTokens)
            k == Cardinality(Overlap(MessageTokens, snapshot))
        IN  gate = "accepted" <=>
               \/ n <= 2 /\ 100 * k >= SHORT_INPUT_THRESHOLD * n
               \/ n > 2 /\ 100 * k >= OVERLAP_THRESHOLD * n

\* C15, amended: the input is accepted iff (n <= 2 and ratio >= 0.33) or
\* (n > 2 and ratio >= 0.18), where n counts every token of the input and
\* ratio = |distinct input tokens in the vocabulary| / |distinct input tokens|.
GateThresholds ==
    gate # "" =>
        LET n == Len(MessageTokens)
            distinct == { MessageTokens[i] : i \in 1..Len(MessageTokens) }
            k == Cardinality(distinct \cap DomainTokens(snapshot))
            d == Cardinality(distinct)
        IN  gate = "accepted" <=>
               \/ n <= 2 /\ 100 * k >= SHORT_INPUT_THRESHOLD * d
               \/ n > 2 /\ 100 * k >= OVERLAP_THRESHOLD * d

\* an input of six tokens, two of them distinct and one of these in the
\* vocabulary, was accepted
GateThresholdsWitness ==
    /\ gate = "accepted"
    /\ Len(MessageTokens) = 6
    /\ Cardinality({ MessageTokens[i] : i \in 1..Len(MessageTokens) }) = 2
    /\ Cardinality(Overlap(MessageTokens, snapshot)) = 1

\* the text of a message of the form search <text>, else the empty string
SearchText ==
    IF StartsWith(LowerStr(Strip(message)), w_search \o Sp)
    THEN Strip(Drop(Strip(message), Len(w_search \o Sp)))
    ELSE <<>>

\* C16: for a message search <text> with a non-empty text, chat makes one run
\* call, for <text>, without consulting the gate, and its reply is never the
\* refusal, whatever the snapshot holds.
SearchBypassesGate ==
    (apc # "idle" /\ SearchText # <<>>) =>
        /\ searches = <<RunCall(SearchText, NoAgency, DEFAULT_LIMIT)>>
        /\ gate = ""
        /\ apc = "done" => reply.kind \in {"results", "no_results"}

\* with an empty snapshot, a search command typed with capitals and spare
\* blanks was answered with results
SearchBypassesGateWitness ==
    /\ apc = "done"
    /\ snapshot = EmptySnapshot
    /\ SearchText = <<"P", "e", "s", "t">>
    /\ message # Strip(message)
    /\ reply.kind = "results"

\* C17: an accepted input makes exactly one run call, whose query is the whole
\* lowercased input; a rejected input makes none, no statement is executed,
\* and the reply is the refusal that lists the four command forms; "hello" is
\* rejected when the vocabulary of the snapshot chat obtained does not hold it.
GateOutcome ==
    /\ gate = "accepted" =>
          searches = <<RunCall(LowerStr(Strip(message)), NoAgency, DEFAULT_LIMIT)>>
    /\ gate = "rejected" =>
          /\ searches = <<>> /\ call = <<>> /\ mode = "" /\ apc = "done"
          /\ reply.kind = "refusal"
          /\ reply.forms = {"search <keyword>", "find <agency>", "recent <N>", "help"}
    /\ (apc \notin {"idle", "meta"} /\ message = w_hello
          /\ w_hello \notin DomainTokens(snapshot)) =>
          gate = "rejected"

\* an input typed with a capital was accepted and its search returned
GateOutcomeWitness ==
    /\ gate = "accepted" /\ apc = "done"
    /\ message # LowerStr(message)
    /\ call.query = LowerStr(message)

\* C18 as stated: after a failure of the connection, of the index probe or of
\* the statement, _query_mysql returns an empty list and run the no-results
\* text.
QueryErrorEmpty ==
    (apc \in {"format", "done"} /\ qfaults # {}) =>
        /\ rows = <<>>
        /\ apc = "done" => reply = ReplyOf("no_results")

\* C18, amended: after a failure of the connection or of the statement,
\* _query_mysql returns an empty list and run and chat return the no-results
\* text; after a failure of the index probe nothing is raised either, the
\* fulltext statement is not used and the search goes on in the substring (or
\* listing) mode; every call ends with a reply.
QueryErrorNotSurfaced ==
    /\ (apc \in {"format", "done"} /\ qfaults \cap {"connect", "statement"} # {}) =>
          /\ rows = <<>>
          /\ apc = "done" => reply = ReplyOf("no_results")
    /\ (apc \in {"execute", "format", "done"} /\ "probe" \in qfaults) =>
          ~use_fulltext /\ mode # "fulltext"
    /\ apc = "done" => reply # <<>>

\* a chat search ended with the no-results text after the statement failed on
\* a table that holds a matching row; and the probe had failed before
QueryErrorNotSurfacedWitness ==
    /\ apc = "done" /\ message # <<>>
    /\ qfaults = {"probe", "statement"}
    /\ mode = "like"
    /\ \E row \in corpus : Where(row, Strip(call.query), call.agency, "like")
    /\ reply = ReplyOf("no_results")

\* the command words of chat
CommandWords == {w_search, w_find, w_recent, w_help}

\* a string of decimal digits
AllDigits(s) == s # <<>> /\ \A i \in 1..Len(s) : s[i] \in Digits

\* C29 as stated: recent <N> with an all-digit N makes one run call with empty
\* text, no filter and limit N; find <agency> makes one with empty text and
\* that agency; an input whose first word is search, find, recent or help
\* never reaches the overlap heuristic; and recent with a missing, non-numeric
\* or surplus argument is answered with the usage message, with no run call
\* and no exception.
CommandDispatch ==
    (apc # "idle" /\ Strip(message) # <<>>) =>
        LET msg == Strip(message)
            lower == LowerStr(msg)
            parts == Split(msg)
        IN  /\ LowerStr(parts[1]) \in CommandWords => gate = ""
            /\ LowerStr(parts[1]) = w_recent =>
                  IF Len(parts) = 2 /\ AllDigits(parts[2])
                  THEN searches = <<RunCall(<<>>, NoAgency, ToInt(parts[2]))>>
                  ELSE searches = <<>> /\ reply = ReplyOf("usage_recent")
            /\ (LowerStr(parts[1]) = w_find /\ Len(parts) > 1) =>
                  searches = <<RunCall(<<>>, Strip(Drop(msg, Len(w_find \o Sp))),
                                       DEFAULT_LIMIT)>>

\* a word of q is a word of one of the five columns the substring statement
\* tests
WordInSearchable(row, q) ==
    \E c \in 1..Len(LikeColumns) :
       /\ row[LikeColumns[c]].t # "null"
       /\ Words(q) \cap Words(row[LikeColumns[c]].v) # {}

TextCondition(row, q, stmt) ==
    CASE stmt = "listing" -> TRUE
      [] stmt = "like" ->
            \E c \in 1..Len(LikeColumns) : ColumnLike(row[LikeColumns[c]], LikePattern(q))
      [] stmt = "fulltext" -> Relevance(row, q) > 0

\* C31: with an empty query the statement is the listing and every document
\* passes the text condition (each is returned if it passes the filter and
\* the limit is not reached); with an agency filter, in every mode, each
\* returned document has an agency entry of that name and satisfies the text
\* condition of the mode as well.
AgencyFilterAndText ==
    Fetched =>
        LET q == Strip(call.query)
        IN  /\ q = <<>> =>
                  /\ mode = "listing"
                  /\ \A row \in corpus :
                        (call.agency # NoAgency =>
                            JsonContainsName(row.agencies, call.agency))
                        => (row.id \in ReturnedIds \/ Len(rows) = call.limit)
            /\ call.agency # NoAgency =>
                  \A id \in ReturnedIds :
                     /\ RowOf(id).agencies.t # "null"
                     /\ \E i \in 1..Len(RowOf(id).agencies.v) :
                           RowOf(id).agencies.v[i] = call.agency
                     /\ TextCondition(RowOf(id), q, mode)

\* a substring search with an agency filter returned the one document that
\* matches the text and has the agency, and left out a document that matches
\* the text in its title under another agency
AgencyFilterAndTextWitness ==
    /\ Fetched /\ mode = "like" /\ call.agency = w_EPA
    /\ ReturnedIds = {"C"} /\ Len(rows) < call.limit
    /\ RowB \in corpus
    /\ TextCondition(RowB, Strip(call.query), "like")
    /\ ~JsonContainsName(RowB.agencies, call.agency)

(***************************************************************************)
(* SpecCache: chat calls that overlap in _get_help_metadata                *)
(***************************************************************************)
\* self._meta_cache_ttl = 15.0
META_CACHE_TTL == 15

\* the last instant of the model's clock
MaxClock == 32

\* the chat calls that may be in progress at once (coroutines of one event loop)
Callers == {1, 2}

\* the seconds that pass between two steps
TickSteps == {7, 8}

\* self._meta_cache = None
NoSnapshot == [none |-> TRUE]

\* what the tables of the store amount to: the stores of the model.  No code
\* of the repository changes the rows of a store while the agent runs
StoreContents ==
    << [total_documents |-> 1, most_recent |-> Date(1),
        agencies |-> FullSnapshot.agencies,
        document_types |-> FullSnapshot.document_types,
        keywords |-> <<w_pest>>],
       [total_documents |-> 2, most_recent |-> Date(2),
        agencies |-> FullSnapshot.agencies \o <<w_EPA>>,
        document_types |-> FullSnapshot.document_types,
        keywords |-> FullSnapshot.keywords] >>

\* the steps of _work at which the store may fail
RecomputeFaults == { {}, {"connect"}, {"agencies"} }

\* the input of the chat calls: one that reaches the intent gate, and passes
\* it when the snapshot holds the keyword
CacheMessages == { w_pest }

\* a snapshot kept from an earlier recompute instead of the empty one
DefaultSnapshotStale == StoreContents[1]

\* the dict of the except branch of _work
DefaultSnapshot ==
    [total_documents |-> 0, most_recent |-> Null, agencies |-> <<>>,
     document_types |-> <<>>, keywords |-> <<>>]

\* _work: the three helpers catch their own errors and return [], a failure of
\* the connection or of a statement of _work itself returns the default dict
WorkResult(store, faults) ==
    IF faults \cap {"connect", "count", "most_recent"} # {}
    THEN DefaultSnapshot
    ELSE [total_documents |-> store.total_documents,
          most_recent |-> store.most_recent,
          agencies |-> IF "agencies" \in faults THEN <<>> ELSE store.agencies,
          document_types |-> IF "types" \in faults THEN <<>> ELSE store.document_types,
          keywords |-> IF "keywords" \in faults THEN <<>> ELSE store.keywords]

\* (now - ts) <= ttl: a snapshot would still be served at the instant of expiry
FreshAtExpiry(now, ts) == now <= ts + META_CACHE_TTL

\* (now - self._meta_cache_ts) < self._meta_cache_ttl
Fresh(now, ts) == now < ts + META_CACHE_TTL

\* the time at which the snapshot is stored, instead of the call's now
TimestampAtAssign(now, assigned_at) == assigned_at

\* self._meta_cache_ts = now: the time read when the call began
Timestamp(now, assigned_at) == now

IdleCall ==
    [pc |-> "idle", now |-> 0, msg |-> <<>>, faults |-> {}, result |-> NoSnapshot,
     read_at |-> 0, hit |-> FALSE, out |-> <<>>]

CacheInit ==
    /\ HashIdle /\ FetchIdle /\ PersistIdle /\ AgentIdle
    /\ clock = META_CACHE_TTL + 1
    /\ store_version \in 1..Len(StoreContents)
    /\ meta_cache = NoSnapshot /\ meta_cache_ts = 0
    /\ calls = [c \in Callers |-> IdleCall]
    /\ cache_hist = [snap_by |-> <<>>, ts_by |-> <<>>, read_at |-> 0]

\* chat reaches _get_help_metadata: now = time.time(); the cached snapshot is
\* returned if there is one and it is fresh, else the recompute is handed to
\* a thread and the coroutine waits
GetHelpMetadata(c) ==
    /\ calls[c].pc \in {"idle", "done"}
    /\ \E msg \in CacheMessages :
          calls' = [calls EXCEPT ![c] =
              IF meta_cache # NoSnapshot /\ Fresh(clock, meta_cache_ts)
              THEN [pc |-> "done", now |-> clock, msg |-> msg, faults |-> {},
                    result |-> meta_cache, read_at |-> cache_hist.read_at,
                    hit |-> TRUE, out |-> ChatOutcome(msg, meta_cache)]
              ELSE [IdleCall EXCEPT !.pc = "work", !.now = clock, !.msg = msg]]
    /\ UNCHANGED <<clock, store_version, meta_cache, meta_cache_ts, cache_hist,
                   hashVars, fetchVars, persistVars, agentVars>>

\* _work runs in its thread and reads the store
Recompute(c) ==
    /\ calls[c].pc = "work"
    /\ \E faults \in RecomputeFaults :
          calls' = [calls EXCEPT ![c].pc = "store",
                                 ![c].faults = faults,
                                 ![c].result = WorkResult(StoreContents[store_version], faults),
                                 ![c].read_at = clock]
    /\ UNCHANGED <<clock, store_version, meta_cache, meta_cache_ts, cache_hist,
                   hashVars, fetchVars, persistVars, agentVars>>

\* the await returns: self._meta_cache = ...; self._meta_cache_ts = now;
\* return self._meta_cache (no await in between), and chat goes on with it
Assign(c) ==
    /\ calls[c].pc = "store"
    /\ meta_cache' = calls[c].result
    /\ meta_cache_ts' = Timestamp(calls[c].now, clock)
    /\ cache_hist' = [snap_by |-> <<c, calls[c].now>>, ts_by |-> <<c, calls[c].now>>,
                      read_at |-> calls[c].read_at]
    /\ calls' = [calls EXCEPT ![c].pc = "done",
                              ![c].out = ChatOutcome(calls[c].msg, calls[c].result)]
    /\ UNCHANGED <<clock, store_version, hashVars, fetchVars, persistVars, agentVars>>

\* time passes
Tick ==
    /\ \E d \in TickSteps : clock + d <= MaxClock /\ clock' = clock + d
    /\ UNCHANGED <<store_version, meta_cache, meta_cache_ts, calls, cache_hist,
                   hashVars, fetchVars, persistVars, agentVars>>

CacheNext ==
    \/ \E c \in Callers : GetHelpMetadata(c)
    \/ \E c \in Callers : Recompute(c)
    \/ \E c \in Callers : Assign(c)
    \/ Tick

SpecCache == CacheInit /\ [][CacheNext]_vars

(***************************************************************************)
(* Properties of the metadata cache                                        *)
(***************************************************************************)
\* a step in which call c enters _get_help_metadata
Enters(c) == calls[c].pc \in {"idle", "done"} /\ calls'[c] # calls[c]

\* a step in which the recompute of call c ends and the call returns
Refreshes(c) == calls[c].pc = "store" /\ calls'[c].pc = "done"

\* C26: a call made less than META_CACHE_TTL seconds after the cached
\* timestamp returns the cached snapshot and makes no store access; a call
\* made with no snapshot, or at or after expiry, goes to the store and on
\* return replaces the snapshot by its result and the timestamp by its own
\* now; and a snapshot served from the cache was read from the store before
\* the call and less than META_CACHE_TTL seconds before it.
CacheTTL ==
    /\ [][\A c \in Callers :
            (Enters(c)) =>
               (IF meta_cache # NoSnapshot /\ clock < meta_cache_ts + META_CACHE_TTL
                THEN /\ calls'[c].pc = "done" /\ calls'[c].hit
                     /\ calls'[c].result = meta_cache
                     /\ UNCHANGED <<meta_cache, meta_cache_ts>>
                ELSE /\ calls'[c].pc = "work" /\ ~calls'[c].hit
                     /\ calls'[c].now = clock)]_vars
    /\ [][\A c \in Callers :
            (Refreshes(c)) =>
               (/\ ~calls[c].hit
                /\ calls[c].read_at >= calls[c].now
                /\ calls'[c].result = calls[c].result
                /\ meta_cache' = calls[c].result
                /\ meta_cache_ts' = calls[c].now)]_vars
    /\ [](\A c \in Callers :
            (calls[c].pc = "done" /\ calls[c].hit) =>
               /\ calls[c].read_at <= calls[c].now
               /\ calls[c].now < calls[c].read_at + META_CACHE_TTL)

\* a call was served, 7 s after it was read, a snapshot that lacks the
\* agencies the store holds (their helper had failed); the other call came
\* exactly META_CACHE_TTL after the timestamp, went to the store and replaced
\* snapshot and timestamp
CacheTTLWitness ==
    /\ calls[1].pc = "done" /\ calls[1].hit
    /\ calls[1].now = calls[1].read_at + 7
    /\ calls[1].result = WorkResult(StoreContents[store_version], {"agencies"})
    /\ calls[2].pc = "done" /\ ~calls[2].hit
    /\ calls[2].now = calls[1].read_at + META_CACHE_TTL
    /\ meta_cache = StoreContents[store_version] /\ meta_cache_ts = calls[2].now

\* the snapshot with total 0, no most-recent date and empty lists
EmptyMeta ==
    [total_documents |-> 0, most_recent |-> Null, agencies |-> <<>>,
     document_types |-> <<>>, keywords |-> <<>>]

\* the chat call that consumed an empty snapshot answered with the refusal
\* and made no search
RefusedOnEmpty(c) ==
    (calls[c].pc = "done" /\ calls[c].result = EmptyMeta) =>
        /\ calls[c].out.run = <<>>
        /\ calls[c].out.reply = ReplyOf("refusal")

\* C27 as stated: whenever the store fails during a recompute the call
\* returns the snapshot with total 0, no most-recent date and empty lists,
\* and chat answers with the refusal.
RecomputeFailureDefault ==
    \A c \in Callers :
       /\ (calls[c].pc \in {"store", "done"} /\ calls[c].faults # {}) =>
             calls[c].result = EmptyMeta
       /\ RefusedOnEmpty(c)

\* C27, amended: a recompute always yields a snapshot, never an error; when
\* the connection or a statement of _work itself fails the snapshot is the
\* one with total 0, no most-recent date and empty lists; when only the
\* statement of one helper fails, that helper's list is empty and the rest is
\* what the store holds; and a gate input answered from the empty snapshot,
\* recomputed or cached, gets the refusal and no search.
RecomputeFailureDegrades ==
    \A c \in Callers :
       /\ calls[c].pc \in {"store", "done"} =>
             /\ calls[c].result # NoSnapshot
             /\ calls[c].faults \cap {"connect", "count", "most_recent"} # {} =>
                   calls[c].result = EmptyMeta
             /\ calls[c].faults = {"agencies"} =>
                   /\ calls[c].result.agencies = <<>>
                   /\ \E v \in 1..Len(StoreContents) :
                         calls[c].result = [StoreContents[v] EXCEPT !.agencies = <<>>]
       /\ RefusedOnEmpty(c)

\* the connection failed in the recompute of one call, which got the empty
\* snapshot and answered with the refusal; the other call was served that
\* snapshot from the cache and answered with the refusal too
RecomputeFailureDegradesWitness ==
    \E c, d \in Callers :
       /\ calls[c].pc = "done" /\ calls[c].faults = {"connect"}
       /\ calls[c].result = EmptyMeta
       /\ calls[c].out.reply = ReplyOf("refusal")
       /\ calls[d].pc = "done" /\ calls[d].hit
       /\ calls[d].result = EmptyMeta
       /\ calls[d].out.reply = ReplyOf("refusal")

\* C28: calls that overlap on an expired cache may each recompute, and the
\* entry is that of the call that returned last; in every state the cached
\* snapshot and timestamp were written by the same refresh, the snapshot is
\* the whole result of one recompute, and the timestamp is the now of that
\* refresh, not later than the moment it read the store.
RacingRefresh ==
    /\ [](meta_cache # NoSnapshot =>
            /\ cache_hist.snap_by = cache_hist.ts_by
            /\ meta_cache_ts = cache_hist.snap_by[2]
            /\ meta_cache_ts <= cache_hist.read_at
            /\ \E v \in 1..Len(StoreContents), faults \in RecomputeFaults :
                  meta_cache = WorkResult(StoreContents[v], faults))
    /\ [][(meta_cache' # meta_cache \/ meta_cache_ts' # meta_cache_ts) =>
            (\E c \in Callers :
                /\ Refreshes(c)
                /\ meta_cache' = calls[c].result
                /\ meta_cache_ts' = calls[c].now
                /\ cache_hist'.snap_by = <<c, calls[c].now>>)]_vars

\* both calls found no fresh snapshot and recomputed; call 2 began later and
\* returned first, call 1 returned last, and the cache holds call 1's
\* snapshot, which is not the one call 2 computed, under call 1's earlier
\* timestamp
RacingRefreshWitness ==
    /\ calls[1].pc = "done" /\ ~calls[1].hit
    /\ calls[2].pc = "done" /\ ~calls[2].hit
    /\ calls[1].now < calls[2].now
    /\ calls[2].now <= calls[1].read_at
    /\ cache_hist.snap_by = <<1, calls[1].now>>
    /\ meta_cache = calls[1].result /\ meta_cache # calls[2].result
    /\ meta_cache_ts = calls[1].now

=============================================================================
